---- MODULE Spec2Model ----
(***************************************************************************)
(* RBAC Privilege Chain Analyzer (.github/scripts/rbac-analyzer.py).       *)
(*                                                                         *)
(* The analyzer is a batch program: main() constructs an RBACAnalyzer,     *)
(* loads every *.yaml manifest below a root directory, runs three          *)
(* analyses that append findings, prints a summary and exits with 0 or 1.  *)
(* The directory tree under scan is the program's input; it is built here  *)
(* by the environment action WriteManifest before the loader runs.         *)
(*                                                                         *)
(* Representation of Python values:                                        *)
(*  - a path is a sequence of segments (Path.parts); a segment is a        *)
(*    sequence of syllables, so that "rolebindings" = <<"role","bin",      *)
(*    "dings">> contains the syllable "bin" without being the segment      *)
(*    <<"bin">>;                                                           *)
(*  - a dict is a sequence of [key, val] pairs in insertion order (Python  *)
(*    dicts iterate in insertion order, assignment to an existing key      *)
(*    keeps its position);                                                 *)
(*  - a key f"{namespace}/{name}" is the pair <<namespace, name>>          *)
(*    (Kubernetes namespaces are DNS labels and hold no '/');              *)
(*  - an absent mapping key is the value Missing;                          *)
(*  - a formatted text is a sequence of its constant and variable parts.   *)
(***************************************************************************)
EXTENDS Integers, Sequences, FiniteSets, TLC

\* ------------------------------------------------------------------------
\* Bounds
\* ------------------------------------------------------------------------
\* Largest number of manifest files in the scanned tree.
MaxFiles == 3

\* Largest number of load_yaml_files calls on one analyzer instance.
MaxLoads == 2

\* ------------------------------------------------------------------------
\* Python helpers
\* ------------------------------------------------------------------------
Missing == "<missing>"

\* dict.get(key, default)
Get(v, default) == IF v = Missing THEN default ELSE v

Range(s) == {s[i] : i \in 1..Len(s)}

\* str.lower() on the tokens that occur in the manifests of this model
Lower(s) ==
    CASE s = "Secrets" -> "secrets"
      [] s = "Get"     -> "get"
      [] s = "PODS"    -> "pods"
      [] s = "Escalate" -> "escalate"
      [] s = "Create"  -> "create"
      [] OTHER         -> s

LowerAll(xs) == [i \in 1..Len(xs) |-> Lower(xs[i])]

DictKeys(d) == {d[i].key : i \in 1..Len(d)}

DictHas(d, k) == \E i \in 1..Len(d) : d[i].key = k

DictGet(d, k) == d[CHOOSE i \in 1..Len(d) : d[i].key = k].val

\* d.setdefault(k, v): the first value of a key stays
DictSetDefault(d, k, v) ==
    IF DictHas(d, k) THEN d ELSE Append(d, [key |-> k, val |-> v])

\* d[k] = v
DictSet(d, k, v) ==
    IF DictHas(d, k)
    THEN [i \in 1..Len(d) |-> IF d[i].key = k THEN [key |-> k, val |-> v] ELSE d[i]]
    ELSE Append(d, [key |-> k, val |-> v])

\* ------------------------------------------------------------------------
\* Manifest documents (the parsed YAML of one document)
\* ------------------------------------------------------------------------
NoRef == [kind |-> Missing, name |-> Missing]

\* aggregationRule: whether the key is in the document, whether it holds
\* clusterRoleSelectors, and the selectors
NoAggregation == [present |-> FALSE, has_selectors |-> FALSE, selectors |-> <<>>]

\* kind, metadata.name, metadata.namespace, rules, aggregationRule, roleRef,
\* subjects, spec.serviceAccountName, spec.automountServiceAccountToken;
\* nulls holds the top-level keys that are in the document with the value
\* null (None after parsing)
Doc(kind, name, namespace, rules, aggregation, roleRef, subjects, sa) ==
    [kind |-> kind, name |-> name, namespace |-> namespace, rules |-> rules,
     aggregationRule |-> aggregation, roleRef |-> roleRef,
     subjects |-> subjects, serviceAccountName |-> sa,
     automountServiceAccountToken |-> Missing, nulls |-> {}]

\* the document with `key: null`
WithNull(doc, key) == [doc EXCEPT !.nulls = @ \cup {key}]

\* a list element that is not a string (a YAML number), on which .lower()
\* raises AttributeError
NotAString == "<int>"

\* the place in a YAML stream where yaml.safe_load_all raises
ParseError == "<parse error>"

ParseErrorDoc == Doc(ParseError, Missing, Missing, <<>>, NoAggregation, NoRef, <<>>, Missing)

Rule(resources, verbs) == [resources |-> resources, verbs |-> verbs]

Subject(kind, namespace, name) == [kind |-> kind, namespace |-> namespace, name |-> name]

ClusterRoleDoc(name, rules) ==
    Doc("ClusterRole", name, Missing, rules, NoAggregation, NoRef, <<>>, Missing)

ClusterRoleBindingDoc(name, roleName, subjects) ==
    Doc("ClusterRoleBinding", name, Missing, <<>>, NoAggregation,
        [kind |-> "ClusterRole", name |-> roleName], subjects, Missing)

RoleBindingDoc(name, namespace, roleKind, roleName, subjects) ==
    Doc("RoleBinding", name, namespace, <<>>, NoAggregation,
        [kind |-> roleKind, name |-> roleName], subjects, Missing)

PodDoc(name, namespace, sa) ==
    Doc("Pod", name, namespace, <<>>, NoAggregation, NoRef, <<>>, sa)

\* ------------------------------------------------------------------------
\* Paths
\* ------------------------------------------------------------------------
YamlSuffix == ".yaml"

\* Path(base_path).rglob("*.yaml"): the last segment ends in ".yaml"
IsYaml(path) ==
    /\ Len(path) > 0
    /\ Len(path[Len(path)]) > 0
    /\ path[Len(path)][Len(path[Len(path)])] = YamlSuffix

\* the names listed in load_yaml_files, each a whole segment
ExcludedNames ==
    {<<".git">>, <<"vendor">>, <<"node_modules">>, <<"test">>, <<"tests">>,
     <<"testdata">>, <<"examples">>, <<"docs">>, <<"bin">>, <<".git", "hub">>}

\* any(x in path_parts for x in [...]) with substring matching instead of
\* whole-segment matching (the false match the code comment warns about)
IsExcludedSubstring(path_parts) ==
    \E i \in 1..Len(path_parts) : \E x \in ExcludedNames :
        \E j \in 1..Len(path_parts[i]) :
            /\ j + Len(x) - 1 <= Len(path_parts[i])
            /\ SubSeq(path_parts[i], j, j + Len(x) - 1) = x

\* any(x in path_parts for x in [...])
IsExcluded(path_parts) ==
    \E x \in ExcludedNames : \E i \in 1..Len(path_parts) : path_parts[i] = x

\* ------------------------------------------------------------------------
\* State
\* ------------------------------------------------------------------------
VARIABLES
    base_path,              \* args.path, the root directory (a path)
    tree,                   \* the files below base_path, in rglob order
    fail_on,                \* args.fail_on
    include_attack_scenarios, \* args.include_attack_scenarios
    pc,                     \* position in main()
    loads,                  \* number of load_yaml_files calls made so far
    cluster_roles,          \* dict name -> [rules, file, doc]
    roles,                  \* dict <<namespace, name>> -> [rules, file]
    cluster_role_bindings,  \* list of [doc, file]
    role_bindings,          \* list of [doc, file]
    service_accounts,       \* dict <<namespace, name>> -> [file, doc]
    pods,                   \* dict <<namespace, name>> -> [serviceAccount, file, automountToken]
    findings,               \* list of findings
    stdout,                 \* lines printed to standard output
    stderr,                 \* lines printed to the error stream
    exit_code,              \* value passed to sys.exit, -1 while running
    \* verify_pr_author.py
    PR_AUTHOR,              \* os.environ.get('PR_AUTHOR')
    FORK_REPO,              \* os.environ.get('FORK_REPO')
    OWNERS_ALIASES,         \* the file OWNERS_ALIASES of the working directory
    verify_pc,              \* position in verify_pr_author.py
    verify_out,             \* lines verify_pr_author.py printed
    verify_status,          \* exit status of verify_pr_author.py, -1 while running
    \* the workspace of the security scan
    tool_output,            \* tool -> its output file: whether it exists, its records
    baseline_file,          \* .github/config/security-baseline.yaml
    baseline_writes,        \* number of times the baseline file was opened for writing
    \* acknowledge-findings.py
    tool_filter,            \* args.tool
    ack_pc,                 \* position in run_interactive
    baseline_data,          \* self.baseline_data
    tools_to_process,       \* the tools the loop has not finished
    new_findings,           \* new_findings of the tool at hand
    indices,                \* the selected numbers, sorted
    index_pos,              \* number of selected findings the loop has passed
    acknowledged,           \* acknowledged of interactive_acknowledge
    reason,                 \* the reason typed for the finding at hand
    total_acknowledged,     \* total_acknowledged of run_interactive
    ack_status,             \* exit status of acknowledge-findings.py, -1 while running
    \* generate-security-report.py
    gen_pc,                 \* position in generate_report
    baseline,               \* self.baseline
    baseline_counts,        \* self.baseline_counts
    report_findings,        \* self.findings, bucket -> list
    tool_stats,             \* self.tool_stats
    posture,                \* the overall security posture
    parsers_called                  \* number of parsers generate_report has called

collection_vars == <<cluster_roles, roles, cluster_role_bindings,
                     role_bindings, service_accounts, pods>>

analyzer_vars == <<base_path, tree, fail_on, include_attack_scenarios, pc,
                   loads, cluster_roles, roles, cluster_role_bindings,
                   role_bindings, service_accounts, pods, findings, stdout,
                   stderr, exit_code>>

verify_vars == <<PR_AUTHOR, FORK_REPO, OWNERS_ALIASES, verify_pc, verify_out,
                 verify_status>>

workspace_vars == <<tool_output, baseline_file, baseline_writes>>

ack_vars == <<tool_filter, ack_pc, baseline_data, tools_to_process,
              new_findings, indices, index_pos, acknowledged, reason,
              total_acknowledged, ack_status>>

gen_vars == <<gen_pc, baseline, baseline_counts, report_findings, tool_stats,
              posture, parsers_called>>

\* the state of the scripts other than rbac-analyzer.py
script_vars == <<verify_vars, workspace_vars, ack_vars, gen_vars>>

vars == <<analyzer_vars, script_vars>>

severity_levels == <<"INFO", "WARNING", "HIGH", "CRITICAL">>

\* ------------------------------------------------------------------------
\* RBACAnalyzer.__init__ and the loader
\* ------------------------------------------------------------------------
EmptyCollections ==
    [cluster_roles |-> <<>>, roles |-> <<>>, cluster_role_bindings |-> <<>>,
     role_bindings |-> <<>>, service_accounts |-> <<>>, pods |-> <<>>]

\* the analyzer's collections as one value
Collections ==
    [cluster_roles |-> cluster_roles, roles |-> roles,
     cluster_role_bindings |-> cluster_role_bindings,
     role_bindings |-> role_bindings,
     service_accounts |-> service_accounts, pods |-> pods]

categorize_resource(c, doc, file_path) ==
    LET kind == doc.kind
        name == Get(doc.name, "unknown")
        namespace == Get(doc.namespace, "default")
    IN  CASE kind = "ClusterRole" ->
               [c EXCEPT !.cluster_roles =
                   DictSet(@, name, [rules |-> doc.rules, file |-> file_path, doc |-> doc])]
          [] kind = "Role" ->
               [c EXCEPT !.roles =
                   DictSet(@, <<namespace, name>>, [rules |-> doc.rules, file |-> file_path])]
          [] kind = "ClusterRoleBinding" ->
               [c EXCEPT !.cluster_role_bindings =
                   Append(@, [doc |-> doc, file |-> file_path])]
          [] kind = "RoleBinding" ->
               [c EXCEPT !.role_bindings =
                   Append(@, [doc |-> doc, file |-> file_path])]
          [] kind = "ServiceAccount" ->
               [c EXCEPT !.service_accounts =
                   DictSet(@, <<namespace, name>>, [file |-> file_path, doc |-> doc])]
          [] kind = "Pod" ->
               [c EXCEPT !.pods =
                   DictSet(@, <<namespace, name>>,
                       [serviceAccount |-> Get(doc.serviceAccountName, "default"),
                        file |-> file_path,
                        automountToken |-> Get(doc.automountServiceAccountToken, "true")])]
          [] OTHER -> c

\* for doc in docs: skip a document without 'kind', categorize the others;
\* where the parser raises, the loop over the documents of the file ends
RECURSIVE LoadDocs(_, _, _, _)
LoadDocs(c, docs, k, file_path) ==
    IF k > Len(docs) THEN c
    ELSE IF docs[k].kind = ParseError THEN c
    ELSE LoadDocs(IF docs[k].kind = Missing THEN c
                  ELSE categorize_resource(c, docs[k], file_path),
                  docs, k + 1, file_path)

\* the body of the loop over rglob("*.yaml") for one directory entry
LoadFile(c, root, file) ==
    LET yaml_file == root \o file.path
    IN  IF ~IsYaml(file.path) THEN c
        ELSE IF IsExcluded(yaml_file) THEN c
        ELSE LoadDocs(c, file.docs, 1, yaml_file)

RECURSIVE LoadFrom(_, _, _, _)
LoadFrom(c, root, files, k) ==
    IF k > Len(files) THEN c
    ELSE LoadFrom(LoadFile(c, root, files[k]), root, files, k + 1)

load_yaml_files(c, root, files) == LoadFrom(c, root, files, 1)

\* '.tmpl.yaml' in str(yaml_file) or '.template.yaml' in str(yaml_file)
TemplateName(yaml_file) ==
    \E i \in 1..Len(yaml_file) : \E j \in 1..(Len(yaml_file[i]) - 1) :
        /\ yaml_file[i][j] \in {".tmpl", ".template"}
        /\ yaml_file[i][j + 1] = YamlSuffix

\* is_template, once the content is read
IsTemplate(yaml_file, file) == TemplateName(yaml_file) \/ file.braces

\* the except branch: the warning of one file, if it prints one
FileWarnings(root, file) ==
    LET yaml_file == root \o file.path
    IN  IF /\ IsYaml(file.path)
           /\ ~IsExcluded(yaml_file)
           /\ \E k \in 1..Len(file.docs) : file.docs[k].kind = ParseError
           /\ ~IsTemplate(yaml_file, file)
        THEN << [tag |-> "Warning: Failed to parse", text |-> <<>>,
                 file |-> yaml_file, parts |-> <<>>, n |-> 0] >>
        ELSE <<>>

\* what one call of load_yaml_files prints to the error stream
RECURSIVE LoadWarnings(_, _)
LoadWarnings(root, files) ==
    IF files = <<>> THEN <<>>
    ELSE FileWarnings(root, Head(files)) \o LoadWarnings(root, Tail(files))

\* ------------------------------------------------------------------------
\* Findings and printed lines
\* ------------------------------------------------------------------------
\* one part of a description: a constant text, the sorted items joined into
\* it and, for an escalation issue, the resources after " on "
Part(text, items, on) == [text |-> text, items |-> items, on |-> on]

Text(text) == Part(text, {}, {})

\* the dict appended by _add_finding
Finding(severity, title, description, file, remediation, attack_scenarios) ==
    [severity |-> severity, title |-> title, description |-> description,
     file |-> file, remediation |-> remediation,
     attack_scenarios |-> attack_scenarios]

NoFile == <<>>

\* one print() call
Line(tag, text, file, parts, n) ==
    [tag |-> tag, text |-> text, file |-> file, parts |-> parts, n |-> n]

Say(tag) == Line(tag, <<>>, NoFile, <<>>, 0)

RECURSIVE Flatten(_)
Flatten(ss) == IF ss = <<>> THEN <<>> ELSE Head(ss) \o Flatten(Tail(ss))

\* ------------------------------------------------------------------------
\* Binding-scope query
\* ------------------------------------------------------------------------
\* binding['doc']['metadata']['name'] of each binding of a list
BindingNames(bindings) == [i \in 1..Len(bindings) |-> bindings[i].doc.name]

\* number of subjects of one binding whose kind is `kind`
KindCount(subjects, kind) ==
    Cardinality({i \in 1..Len(subjects) : Get(subjects[i].kind, "") = kind})

\* subject_types[kind] after the loop over cluster_role_bindings + role_bindings
RECURSIVE SubjectCount(_, _, _)
SubjectCount(bindings, role_name, kind) ==
    IF bindings = <<>> THEN 0
    ELSE (IF Head(bindings).doc.roleRef.name = role_name
          THEN KindCount(Head(bindings).doc.subjects, kind) ELSE 0)
         + SubjectCount(Tail(bindings), role_name, kind)

\* the RoleBinding test without the roleRef.kind comparison
RefersToNameOnly(binding, role_name) ==
    binding.doc.roleRef.name = role_name

\* role_ref.get('name') == role_name and role_ref.get('kind') == 'ClusterRole'
RefersToClusterRole(binding, role_name) ==
    /\ binding.doc.roleRef.name = role_name
    /\ binding.doc.roleRef.kind = "ClusterRole"

get_clusterrole_binding_scope(c, role_name) ==
    LET cluster_bindings ==
            BindingNames(SelectSeq(c.cluster_role_bindings,
                                   LAMBDA b : b.doc.roleRef.name = role_name))
        role_bindings_list ==
            BindingNames(SelectSeq(c.role_bindings,
                                   LAMBDA b : RefersToClusterRole(b, role_name)))
        all == c.cluster_role_bindings \o c.role_bindings
    IN  [cluster_wide |-> Len(cluster_bindings) > 0,
         namespace_scoped |-> Len(role_bindings_list) > 0,
         unbound |-> Len(cluster_bindings) = 0 /\ Len(role_bindings_list) = 0,
         cluster_bindings |-> cluster_bindings,
         role_bindings |-> role_bindings_list,
         subject_types |->
            [ServiceAccount |-> SubjectCount(all, role_name, "ServiceAccount"),
             Group |-> SubjectCount(all, role_name, "Group"),
             User |-> SubjectCount(all, role_name, "User")]]

\* ------------------------------------------------------------------------
\* analyze_dangerous_permissions
\* ------------------------------------------------------------------------
dangerous_verbs == {"escalate", "impersonate", "bind", "*"}

dangerous_resources ==
    {"*", "secrets", "persistentvolumes", "nodes", "clusterroles",
     "clusterrolebindings", "pods/exec", "pods/attach"}

escalation_combos ==
    << [verbs |-> {"create", "patch", "update"},
        resources |-> {"roles", "clusterroles", "rolebindings", "clusterrolebindings"}],
       [verbs |-> {"create"}, resources |-> {"pods"}] >>

\* the lower-cased resources and verbs of one rule, as sets
RuleResources(rule) == Range(LowerAll(rule.resources))

\* the verbs of one rule as they are written
RuleVerbsAsWritten(rule) == Range(rule.verbs)

RuleVerbs(rule) == Range(LowerAll(rule.verbs))

\* the pass that appends the issue text of every combination a rule triggers
RECURSIVE CheckCombosNoDedup(_, _, _)
CheckCombosNoDedup(issues, rule, k) ==
    IF k > Len(escalation_combos) THEN issues
    ELSE LET combo == escalation_combos[k]
             escalation_issue == Part("Escalation risk", combo.verbs, combo.resources)
             hit == /\ RuleVerbs(rule) \cap combo.verbs # {}
                    /\ RuleResources(rule) \cap combo.resources # {}
         IN  CheckCombosNoDedup(IF hit THEN Append(issues, escalation_issue) ELSE issues,
                                rule, k + 1)

\* one pass of "for escalation_verbs, escalation_resources in escalation_combos"
RECURSIVE CheckCombos(_, _, _)
CheckCombos(issues, rule, k) ==
    IF k > Len(escalation_combos) THEN issues
    ELSE LET combo == escalation_combos[k]
             escalation_issue == Part("Escalation risk", combo.verbs, combo.resources)
             hit == /\ RuleVerbs(rule) \cap combo.verbs # {}
                    /\ RuleResources(rule) \cap combo.resources # {}
         IN  CheckCombos(IF hit /\ escalation_issue \notin Range(issues)
                         THEN Append(issues, escalation_issue) ELSE issues,
                         rule, k + 1)

\* escalation_issues after the loop over the rules
RECURSIVE EscalationIssues(_, _, _)
EscalationIssues(issues, rules, k) ==
    IF k > Len(rules) THEN issues
    ELSE EscalationIssues(CheckCombos(issues, rules[k], 1), rules, k + 1)

\* what the loop "for rule in rules" collects for one ClusterRole
RoleIssues(rules) ==
    [has_wildcard_resources |->
        \E i \in 1..Len(rules) : "*" \in RuleResources(rules[i]),
     has_wildcard_verbs |->
        \E i \in 1..Len(rules) : "*" \in RuleVerbs(rules[i]),
     all_dangerous_verbs |->
        UNION {RuleVerbs(rules[i]) \cap dangerous_verbs : i \in 1..Len(rules)},
     all_dangerous_resources |->
        UNION {RuleResources(rules[i]) \cap dangerous_resources : i \in 1..Len(rules)},
     escalation_issues |-> EscalationIssues(<<>>, rules, 1)]

\* findings_for_role, the consolidated list of issue texts
FindingsForRole(ri) ==
    (IF ri.has_wildcard_resources THEN <<Text("Wildcard resources (*)")>> ELSE <<>>)
    \o (IF ri.has_wildcard_verbs THEN <<Text("Wildcard verbs (*)")>> ELSE <<>>)
    \o (IF ri.all_dangerous_verbs # {}
        THEN <<Part("Dangerous verbs", ri.all_dangerous_verbs, {})>> ELSE <<>>)
    \o (IF ri.all_dangerous_resources # {}
        THEN <<Part("Dangerous resources", ri.all_dangerous_resources, {})>> ELSE <<>>)
    \o ri.escalation_issues

\* the scenario keys of one escalation issue; the issue text is split at
\* " on " and each side at "/", which gives back the combination's sets
EscalationScenarios(issue) ==
    (IF "create" \in issue.items /\ "pods" \in issue.on
     THEN <<"escalation_create_pods">> ELSE <<>>)
    \o (IF \E rb \in {"rolebindings", "clusterrolebindings"} : rb \in issue.on
        THEN <<"escalation_create_rolebindings">> ELSE <<>>)

AttackScenariosFor(ri) ==
    (IF ri.has_wildcard_resources THEN <<"wildcard_resources">> ELSE <<>>)
    \o (IF ri.has_wildcard_verbs THEN <<"wildcard_verbs">> ELSE <<>>)
    \o (IF "escalate" \in ri.all_dangerous_verbs
        THEN <<"dangerous_verb_escalate">> ELSE <<>>)
    \o (IF "impersonate" \in ri.all_dangerous_verbs
        THEN <<"dangerous_verb_impersonate">> ELSE <<>>)
    \o (IF "secrets" \in ri.all_dangerous_resources
        THEN <<"dangerous_resource_secrets">> ELSE <<>>)
    \o (IF \/ "pods/exec" \in ri.all_dangerous_resources
           \/ "pods/attach" \in ri.all_dangerous_resources
        THEN <<"dangerous_resource_pods_exec">> ELSE <<>>)
    \o Flatten([i \in 1..Len(ri.escalation_issues) |->
                    EscalationScenarios(ri.escalation_issues[i])])

Sev(severity) == [severity |-> severity, remediation |-> "-"]

\* the severity rows with the wildcard test placed before the unbound test
DangerSeverityWildcardFirst(binding_scope, has_wildcard_resources, has_wildcard_verbs) ==
    IF has_wildcard_resources \/ has_wildcard_verbs
    THEN (IF binding_scope.cluster_wide THEN Sev("CRITICAL") ELSE Sev("HIGH"))
    ELSE IF binding_scope.unbound THEN Sev("INFO")
    ELSE IF binding_scope.cluster_wide THEN Sev("HIGH")
    ELSE Sev("WARNING")

\* the severity rows with CRITICAL only when verbs and resources are both
\* wildcards
DangerSeverityBothWildcards(binding_scope, has_wildcard_resources, has_wildcard_verbs) ==
    IF binding_scope.unbound THEN Sev("INFO")
    ELSE IF binding_scope.cluster_wide
    THEN (IF has_wildcard_resources /\ has_wildcard_verbs
          THEN Sev("CRITICAL") ELSE Sev("HIGH"))
    ELSE IF has_wildcard_resources \/ has_wildcard_verbs THEN Sev("HIGH")
    ELSE Sev("WARNING")

\* the severity rows with Group-only namespace bindings raised to HIGH
DangerSeverityGroupHigh(binding_scope, has_wildcard_resources, has_wildcard_verbs) ==
    IF binding_scope.unbound THEN Sev("INFO")
    ELSE IF binding_scope.cluster_wide
    THEN (IF has_wildcard_resources \/ has_wildcard_verbs
          THEN Sev("CRITICAL") ELSE Sev("HIGH"))
    ELSE IF has_wildcard_resources \/ has_wildcard_verbs THEN Sev("HIGH")
    ELSE IF /\ binding_scope.subject_types.Group > 0
            /\ binding_scope.subject_types.ServiceAccount = 0
    THEN Sev("HIGH")
    ELSE Sev("WARNING")

\* the severity rows without the wildcard test for namespace-scoped roles
DangerSeverityNamespaceWarning(binding_scope, has_wildcard_resources, has_wildcard_verbs) ==
    IF binding_scope.unbound THEN Sev("INFO")
    ELSE IF binding_scope.cluster_wide
    THEN (IF has_wildcard_resources \/ has_wildcard_verbs
          THEN Sev("CRITICAL") ELSE Sev("HIGH"))
    ELSE Sev("WARNING")

\* severity and remediation from the binding scope and the wildcard flags
DangerSeverity(binding_scope, has_wildcard_resources, has_wildcard_verbs) ==
    IF binding_scope.unbound
    THEN [severity |-> "INFO",
          remediation |-> "Remove unused ClusterRole or bind appropriately with least privilege"]
    ELSE IF binding_scope.cluster_wide
    THEN IF has_wildcard_resources \/ has_wildcard_verbs
         THEN [severity |-> "CRITICAL",
               remediation |-> "Remove wildcard permissions and scope to namespace via RoleBinding"]
         ELSE [severity |-> "HIGH",
               remediation |-> "Scope to namespace via RoleBinding or reduce permissions to minimum required"]
    ELSE IF has_wildcard_resources \/ has_wildcard_verbs
         THEN [severity |-> "HIGH",
               remediation |-> "Remove wildcard permissions; specify exact resources and verbs needed"]
         ELSE IF /\ binding_scope.subject_types.Group > 0
                 /\ binding_scope.subject_types.ServiceAccount = 0
         THEN [severity |-> "WARNING",
               remediation |-> "Verify these permissions are required for administrative access; document justification"]
         ELSE [severity |-> "WARNING",
               remediation |-> "Verify these permissions are required; document justification if multi-tenant design"]

\* description_parts after the issue texts
ScopeDescription(binding_scope) ==
    IF binding_scope.cluster_wide
    THEN <<Text("Bound cluster-wide via ClusterRoleBinding")>>
    ELSE IF binding_scope.namespace_scoped
    THEN <<Text("Bound per-namespace via RoleBinding")>>
         \o (IF binding_scope.subject_types.Group > 0
             THEN <<Text("Assigned to Group principals")>>
             ELSE IF binding_scope.subject_types.ServiceAccount > 0
             THEN <<Text("Assigned to ServiceAccount principals")>>
             ELSE <<>>)
    ELSE <<Text("Not actively bound (dormant template)")>>

\* the lines printed for one ClusterRole that has issues
ScopeLines(role_name, role_data, findings_for_role, binding_scope) ==
    LET st == binding_scope.subject_types
        subject_info ==
            (IF st.ServiceAccount > 0 THEN <<"ServiceAccount">> ELSE <<>>)
            \o (IF st.Group > 0 THEN <<"Group">> ELSE <<>>)
            \o (IF st.User > 0 THEN <<"User">> ELSE <<>>)
    IN  <<Line("clusterrole", <<role_name>>, role_data.file, <<>>, 0)>>
        \o [i \in 1..Len(findings_for_role) |->
                Line("issue", <<>>, NoFile, <<findings_for_role[i]>>, 0)]
        \o (IF binding_scope.cluster_wide THEN <<Say("bound_cluster_wide")>> ELSE <<>>)
        \o (IF binding_scope.namespace_scoped THEN <<Say("bound_per_namespace")>> ELSE <<>>)
        \o (IF binding_scope.unbound THEN <<Say("not_bound")>> ELSE <<>>)
        \o (IF ~binding_scope.unbound /\ subject_info # <<>>
            THEN <<Line("subject_types", subject_info, NoFile, <<>>,
                        st.ServiceAccount + st.Group + st.User)>>
            ELSE <<>>)
        \o <<Say("blank")>>

\* the body of "for role_name, role_data in self.cluster_roles.items()"
DangerousForRole(c, role_name, role_data) ==
    LET ri == RoleIssues(role_data.rules)
        findings_for_role == FindingsForRole(ri)
        binding_scope == get_clusterrole_binding_scope(c, role_name)
        sev == DangerSeverity(binding_scope, ri.has_wildcard_resources,
                              ri.has_wildcard_verbs)
    IN  IF findings_for_role = <<>>
        THEN [findings |-> <<>>, out |-> <<>>]
        ELSE [findings |->
                << Finding(sev.severity,
                           <<"ClusterRole", role_name, "has dangerous permissions">>,
                           findings_for_role \o ScopeDescription(binding_scope),
                           role_data.file, sev.remediation,
                           AttackScenariosFor(ri)) >>,
              out |-> ScopeLines(role_name, role_data, findings_for_role, binding_scope)]

analyze_dangerous_permissions(c) ==
    LET per == [i \in 1..Len(c.cluster_roles) |->
                    DangerousForRole(c, c.cluster_roles[i].key, c.cluster_roles[i].val)]
        new == Flatten([i \in 1..Len(per) |-> per[i].findings])
    IN  [findings |-> new,
         out |-> <<Say("### Dangerous Permission Analysis")>>
                 \o Flatten([i \in 1..Len(per) |-> per[i].out])
                 \o (IF new = <<>> THEN <<Say("no_dangerous_permissions")>> ELSE <<>>)]

\* ------------------------------------------------------------------------
\* check_aggregated_roles
\* ------------------------------------------------------------------------
AggregatedForRole(role_name, role_data) ==
    LET doc == role_data.doc
        selectors == IF doc.aggregationRule.has_selectors
                     THEN doc.aggregationRule.selectors ELSE <<>>
    IN  IF doc.aggregationRule.present
        THEN [findings |->
                << Finding("INFO",
                           <<"Aggregated ClusterRole detected:", role_name>>,
                           <<Part("Aggregates permissions from roles matching",
                                  Range(selectors), {})>>,
                           role_data.file,
                           "Review aggregation selectors to ensure no unintended permissions are granted",
                           <<>>) >>,
              out |-> << Line("clusterrole", <<role_name>>, NoFile, <<>>, 0),
                         Line("aggregates", selectors, NoFile, <<>>, 0),
                         Line("file", <<>>, role_data.file, <<>>, 0) >>]
        ELSE [findings |-> <<>>, out |-> <<>>]

check_aggregated_roles(c) ==
    LET per == [i \in 1..Len(c.cluster_roles) |->
                    AggregatedForRole(c.cluster_roles[i].key, c.cluster_roles[i].val)]
        new == Flatten([i \in 1..Len(per) |-> per[i].findings])
    IN  [findings |-> new,
         out |-> <<Say("### Aggregated ClusterRole Analysis")>>
                 \o Flatten([i \in 1..Len(per) |-> per[i].out])
                 \o (IF new = <<>> THEN <<Say("no_aggregated_clusterroles")>> ELSE <<>>)]

\* ------------------------------------------------------------------------
\* analyze_privilege_chains
\* ------------------------------------------------------------------------
\* f"{namespace}/{name}" as text
KeyText(key) == <<key[1], "/", key[2]>>

\* the map that keeps one grant per key: sa_permissions[sa_key] = [perm]
SetPerm(sa_permissions, sa_key, perm) ==
    DictSet(sa_permissions, sa_key, <<perm>>)

\* sa_permissions[sa_key].append(perm) on a defaultdict(list)
AppendPerm(sa_permissions, sa_key, perm) ==
    DictSet(sa_permissions, sa_key,
            IF DictHas(sa_permissions, sa_key)
            THEN Append(DictGet(sa_permissions, sa_key), perm)
            ELSE <<perm>>)

\* "for subject in subjects" of one binding; a subject without namespace
\* gets default_namespace
RECURSIVE SubjectPerms(_, _, _, _, _)
SubjectPerms(sa_permissions, binding, type, default_namespace, k) ==
    LET subjects == binding.doc.subjects
    IN  IF k > Len(subjects) THEN sa_permissions
        ELSE SubjectPerms(
                IF subjects[k].kind = "ServiceAccount"
                THEN AppendPerm(sa_permissions,
                                <<Get(subjects[k].namespace, default_namespace),
                                  subjects[k].name>>,
                                [type |-> type,
                                 role |-> binding.doc.roleRef.name,
                                 binding |-> binding.doc.name,
                                 file |-> binding.file])
                ELSE sa_permissions,
                binding, type, default_namespace, k + 1)

\* "for binding in self.cluster_role_bindings"
RECURSIVE ClusterBindingPerms(_, _, _)
ClusterBindingPerms(sa_permissions, bindings, k) ==
    IF k > Len(bindings) THEN sa_permissions
    ELSE ClusterBindingPerms(
            SubjectPerms(sa_permissions, bindings[k], "ClusterRole", "default", 1),
            bindings, k + 1)

\* "for binding in self.role_bindings"
RECURSIVE RoleBindingPerms(_, _, _)
RoleBindingPerms(sa_permissions, bindings, k) ==
    IF k > Len(bindings) THEN sa_permissions
    ELSE RoleBindingPerms(
            SubjectPerms(sa_permissions, bindings[k],
                         bindings[k].doc.roleRef.kind,
                         Get(bindings[k].doc.namespace, "default"), 1),
            bindings, k + 1)

\* the per-ServiceAccount binding map
SaPermissions(c) ==
    RoleBindingPerms(ClusterBindingPerms(<<>>, c.cluster_role_bindings, 1),
                     c.role_bindings, 1)

\* the test without the set of reported bindings
AlwaysReport(reported_bindings, binding) == TRUE

\* perm['binding'] not in reported_bindings
NotYetReported(reported_bindings, binding) == binding \notin reported_bindings

\* the test restricted to grants that come with a ClusterRole
GrantsClusterAdminRole(perm) ==
    perm.role = "cluster-admin" /\ perm.type = "ClusterRole"

\* role_name == 'cluster-admin'
GrantsClusterAdmin(perm) == perm.role = "cluster-admin"

\* the body of "for perm in sa_permissions[sa_key]"; acc holds the findings,
\* the printed lines and reported_bindings
ChainPerm(c, acc, pod_key, pod_info, sa_key, perm) ==
    LET admin ==
            IF GrantsClusterAdmin(perm)
            THEN << Finding("CRITICAL",
                            <<"Pod">> \o KeyText(pod_key) \o <<"has cluster-admin access">>,
                            <<Text("Pod uses ServiceAccount")>>
                                \o [i \in 1..3 |-> Text(KeyText(sa_key)[i])]
                                \o <<Text("bound to cluster-admin")>>,
                            pod_info.file,
                            "Create a custom Role with minimal required permissions",
                            <<>>) >>
            ELSE <<>>
        cross ==
            /\ perm.type = "ClusterRole"
            /\ NotYetReported(acc.reported_bindings, perm.binding)
            /\ \E i \in 1..Len(c.role_bindings) :
                    c.role_bindings[i].doc.name = perm.binding
        warning ==
            IF cross
            THEN << Finding("WARNING",
                            <<"RoleBinding", perm.binding, "grants cluster-wide permissions">>,
                            <<Text("RoleBinding references ClusterRole"), Text(perm.role),
                              Text("granting cluster-scoped permissions in namespace scope")>>,
                            perm.file,
                            "Use a namespace-scoped Role instead of ClusterRole",
                            <<>>) >>
            ELSE <<>>
    IN  [findings |-> acc.findings \o admin \o warning,
         out |-> Append(acc.out,
                        Line("permission", <<perm.type, perm.role, perm.binding>>,
                             NoFile, <<>>, 0)),
         reported_bindings |->
            IF cross THEN acc.reported_bindings \cup {perm.binding}
            ELSE acc.reported_bindings,
         chains_found |-> acc.chains_found]

RECURSIVE ChainPerms(_, _, _, _, _, _, _)
ChainPerms(c, acc, pod_key, pod_info, sa_key, perms, k) ==
    IF k > Len(perms) THEN acc
    ELSE ChainPerms(c, ChainPerm(c, acc, pod_key, pod_info, sa_key, perms[k]),
                    pod_key, pod_info, sa_key, perms, k + 1)

\* the body of "for pod_key, pod_info in self.pods.items()"
ChainPod(c, sa_permissions, acc, pod_key, pod_info) ==
    LET namespace == pod_key[1]
        sa_key == <<namespace, pod_info.serviceAccount>>
    IN  IF DictHas(sa_permissions, sa_key)
        THEN LET start == [acc EXCEPT
                            !.chains_found = TRUE,
                            !.out = @ \o << Line("pod", KeyText(pod_key), NoFile, <<>>, 0),
                                            Line("serviceaccount", KeyText(sa_key), NoFile, <<>>, 0),
                                            Say("permissions") >>]
                 done == ChainPerms(c, start, pod_key, pod_info, sa_key,
                                    DictGet(sa_permissions, sa_key), 1)
             IN  [done EXCEPT !.out = Append(@, Say("blank"))]
        ELSE acc

RECURSIVE ChainPods(_, _, _, _)
ChainPods(c, sa_permissions, acc, k) ==
    IF k > Len(c.pods) THEN acc
    ELSE ChainPods(c, sa_permissions,
                   ChainPod(c, sa_permissions, acc, c.pods[k].key, c.pods[k].val),
                   k + 1)

analyze_privilege_chains(c) ==
    LET start == [findings |-> <<>>,
                  out |-> << Say("### RBAC Privilege Chain Analysis"),
                             Say("#### Service Account -> Pod Mapping") >>,
                  reported_bindings |-> {},
                  chains_found |-> FALSE]
        done == ChainPods(c, SaPermissions(c), start, 1)
    IN  [findings |-> done.findings,
         out |-> done.out \o (IF ~done.chains_found THEN <<Say("no_chains")>> ELSE <<>>)]

\* ------------------------------------------------------------------------
\* Where the analyses raise
\* ------------------------------------------------------------------------
\* binding['doc']['metadata']['name'] raises KeyError
Nameless(binding) == binding.doc.name = Missing

\* get_clusterrole_binding_scope(role_name) raises: a ClusterRoleBinding
\* whose roleRef names the role, or a RoleBinding whose roleRef names it with
\* kind ClusterRole, has no metadata.name
ScopeRaises(c, role_name) ==
    \/ \E i \in 1..Len(c.cluster_role_bindings) :
            /\ c.cluster_role_bindings[i].doc.roleRef.name = role_name
            /\ Nameless(c.cluster_role_bindings[i])
    \/ \E i \in 1..Len(c.role_bindings) :
            /\ RefersToClusterRole(c.role_bindings[i], role_name)
            /\ Nameless(c.role_bindings[i])

\* [r.lower() for r in resources] or [v.lower() for v in verbs] raises
\* AttributeError
LowerRaises(rule) ==
    NotAString \in Range(rule.resources) \cup Range(rule.verbs)

\* the body of the loop of analyze_dangerous_permissions raises for one
\* ClusterRole: "for rule in rules" over None, .lower() on a non-string, or
\* the binding-scope query once the role has an issue to report
RoleRaises(c, role_name, role_data) ==
    \/ "rules" \in role_data.doc.nulls
    \/ \E k \in 1..Len(role_data.rules) : LowerRaises(role_data.rules[k])
    \/ /\ FindingsForRole(RoleIssues(role_data.rules)) # <<>>
       /\ ScopeRaises(c, role_name)

DangerousRaises(c) ==
    \E i \in 1..Len(c.cluster_roles) :
        RoleRaises(c, c.cluster_roles[i].key, c.cluster_roles[i].val)

\* doc['aggregationRule'].get(...) on None raises AttributeError
AggregatedRaises(c) ==
    \E i \in 1..Len(c.cluster_roles) :
        "aggregationRule" \in c.cluster_roles[i].val.doc.nulls

\* the two loops that fill sa_permissions raise: a binding without
\* metadata.name has a ServiceAccount subject
PermsRaise(c) ==
    \E b \in Range(c.cluster_role_bindings) \cup Range(c.role_bindings) :
        /\ Nameless(b)
        /\ \E k \in 1..Len(b.doc.subjects) : b.doc.subjects[k].kind = "ServiceAccount"

\* any(b['doc']['metadata']['name'] == binding for b in self.role_bindings)
\* raises: a RoleBinding without metadata.name comes before the first match
AnyRaises(c, binding) ==
    \E i \in 1..Len(c.role_bindings) :
        /\ Nameless(c.role_bindings[i])
        /\ \A j \in 1..(i - 1) : c.role_bindings[j].doc.name # binding

\* the walk over the Pods raises: a Pod's ServiceAccount holds a grant of
\* type ClusterRole, and the search for its binding raises
WalkRaises(c) ==
    LET sa_permissions == SaPermissions(c)
    IN  \E k \in 1..Len(c.pods) :
            LET sa_key == <<c.pods[k].key[1], c.pods[k].val.serviceAccount>>
            IN  /\ DictHas(sa_permissions, sa_key)
                /\ \E n \in 1..Len(DictGet(sa_permissions, sa_key)) :
                        LET perm == DictGet(sa_permissions, sa_key)[n]
                        IN  /\ perm.type = "ClusterRole"
                            /\ AnyRaises(c, perm.binding)

ChainsRaise(c) == PermsRaise(c) \/ (~PermsRaise(c) /\ WalkRaises(c))

\* ------------------------------------------------------------------------
\* generate_report
\* ------------------------------------------------------------------------
\* the keys of the ATTACK_SCENARIOS catalog
ATTACK_SCENARIOS ==
    {"wildcard_resources", "wildcard_verbs", "dangerous_verb_escalate",
     "dangerous_verb_impersonate", "dangerous_resource_secrets",
     "dangerous_resource_pods_exec", "escalation_create_pods",
     "escalation_create_rolebindings"}

\* print(self._format_attack_scenario(scenario_key)): the prose of the
\* catalog entry, or an empty line for an unknown key
format_attack_scenario(scenario_key) ==
    IF scenario_key \notin ATTACK_SCENARIOS THEN Say("blank")
    ELSE Line("scenario", <<scenario_key>>, NoFile, <<>>, 0)

\* the test without the include_attack_scenarios flag
ShowScenariosAlways(include, finding) ==
    finding.attack_scenarios # <<>>

\* "if include_attack_scenarios and finding.get('attack_scenarios')"
ShowScenarios(include, finding) ==
    include /\ finding.attack_scenarios # <<>>

\* the lines of the i-th finding of a severity section
FindingLines(finding, i, include) ==
    << Line("title", finding.title, NoFile, <<>>, i),
       Line("file", <<>>, finding.file, <<>>, 0),
       Line("issue", <<>>, NoFile, finding.description, 0),
       Line("fix", <<finding.remediation>>, NoFile, <<>>, 0) >>
    \o (IF ShowScenarios(include, finding)
        THEN <<Say("rule"), Say("confidential")>>
             \o [k \in 1..Len(finding.attack_scenarios) |->
                    format_attack_scenario(finding.attack_scenarios[k])]
             \o <<Say("rule")>>
        ELSE <<>>)

\* by_severity[severity]
BySeverity(fs, severity) == SelectSeq(fs, LAMBDA f : f.severity = severity)

\* the section that is printed even when it has no findings
SectionLinesWithEmpty(fs, severity, include) ==
    LET group == BySeverity(fs, severity)
    IN  <<Line("section", <<severity>>, NoFile, <<>>, Len(group))>>
        \o Flatten([i \in 1..Len(group) |-> FindingLines(group[i], i, include)])

\* one pass of "for severity in ['CRITICAL', 'HIGH', 'WARNING', 'INFO']"
SectionLines(fs, severity, include) ==
    LET group == BySeverity(fs, severity)
    IN  IF group = <<>> THEN <<>>
        ELSE <<Line("section", <<severity>>, NoFile, <<>>, Len(group))>>
             \o Flatten([i \in 1..Len(group) |-> FindingLines(group[i], i, include)])

\* list.index(x), counted from 0
IndexOf(xs, x) == (CHOOSE i \in 1..Len(xs) : xs[i] = x) - 1

\* blocking_findings taken from severity_levels[fail_threshold + 1:], which
\* leaves out the findings at the threshold itself
BlockingFindingsAbove(fs, fail_on_severity) ==
    LET fail_threshold == IndexOf(severity_levels, fail_on_severity) + 1
    IN  Flatten([i \in 1..(Len(severity_levels) - fail_threshold) |->
                    BySeverity(fs, severity_levels[fail_threshold + i])])

\* blocking_findings: the findings of severity_levels[fail_threshold:]
BlockingFindings(fs, fail_on_severity) ==
    LET fail_threshold == IndexOf(severity_levels, fail_on_severity)
    IN  Flatten([i \in 1..(Len(severity_levels) - fail_threshold) |->
                    BySeverity(fs, severity_levels[fail_threshold + i])])

generate_report(fs, fail_on_severity, include) ==
    LET blocking_findings == BlockingFindings(fs, fail_on_severity)
        order == <<"CRITICAL", "HIGH", "WARNING", "INFO">>
    IN  [out |-> <<Say("rule"), Say("## RBAC SECURITY FINDINGS SUMMARY"), Say("rule")>>
                 \o Flatten([i \in 1..Len(order) |-> SectionLines(fs, order[i], include)])
                 \o <<Line("total", <<>>, NoFile, <<>>, Len(fs))>>
                 \o (IF blocking_findings # <<>>
                     THEN <<Line("fail", <<fail_on_severity>>, NoFile, <<>>,
                                 Len(blocking_findings))>>
                     ELSE <<Line("pass", <<fail_on_severity>>, NoFile, <<>>, 0)>>),
         code |-> IF blocking_findings # <<>> THEN 1 ELSE 0]

\* ------------------------------------------------------------------------
\* Initial state: the arguments are parsers_called and the analyzer is constructed
\* ------------------------------------------------------------------------
\* verify_pr_author.py has not been started
VerifyIdle ==
    /\ PR_AUTHOR = Missing
    /\ FORK_REPO = Missing
    /\ OWNERS_ALIASES = Missing
    /\ verify_pc = "idle"
    /\ verify_out = <<>>
    /\ verify_status = -1

\* no security scan has left anything, and neither acknowledge-findings.py
\* nor generate-security-report.py has been started
ScanIdle ==
    /\ tool_output = Missing
    /\ baseline_file = Missing
    /\ baseline_writes = 0
    /\ tool_filter = Missing
    /\ ack_pc = "idle"
    /\ baseline_data = Missing
    /\ tools_to_process = <<>>
    /\ new_findings = <<>>
    /\ indices = <<>>
    /\ index_pos = 0
    /\ acknowledged = <<>>
    /\ reason = Missing
    /\ total_acknowledged = 0
    /\ ack_status = -1
    /\ gen_pc = "idle"
    /\ baseline = Missing
    /\ baseline_counts = Missing
    /\ report_findings = Missing
    /\ tool_stats = Missing
    /\ posture = Missing
    /\ parsers_called = 0

\* only rbac-analyzer.py runs
ScriptsIdle ==
    /\ VerifyIdle
    /\ ScanIdle

InitWith(Roots, FailOns, Includes) ==
    /\ base_path \in Roots
    /\ fail_on \in FailOns
    /\ include_attack_scenarios \in Includes
    /\ tree = <<>>
    /\ pc = "tree"
    /\ loads = 0
    /\ cluster_roles = <<>>
    /\ roles = <<>>
    /\ cluster_role_bindings = <<>>
    /\ role_bindings = <<>>
    /\ service_accounts = <<>>
    /\ pods = <<>>
    /\ findings = <<>>
    /\ stdout = <<>>
    /\ stderr = <<>>
    /\ exit_code = -1
    /\ ScriptsIdle

\* ------------------------------------------------------------------------
\* Actions
\* ------------------------------------------------------------------------
\* The environment puts one more file into the tree before the scan starts.
WriteManifest(Paths, Docs) ==
    /\ pc = "tree"
    /\ Len(tree) < MaxFiles
    /\ \E path \in Paths, doc \in Docs :
        /\ \A i \in 1..Len(tree) : tree[i].path # path
        /\ tree' = Append(tree, [path |-> path, docs |-> <<doc>>, braces |-> FALSE])
    /\ UNCHANGED script_vars
    /\ UNCHANGED <<base_path, fail_on, include_attack_scenarios, pc, loads,
                   cluster_roles, roles, cluster_role_bindings, role_bindings,
                   service_accounts, pods, findings, stdout, stderr, exit_code>>

\* The environment puts a file of several documents into the tree; braces
\* tells whether its text holds "{{".
WriteFile(Files) ==
    /\ pc = "tree"
    /\ Len(tree) < MaxFiles
    /\ \E file \in Files :
        /\ \A i \in 1..Len(tree) : tree[i].path # file.path
        /\ tree' = Append(tree, file)
    /\ UNCHANGED script_vars
    /\ UNCHANGED <<base_path, fail_on, include_attack_scenarios, pc, loads,
                   cluster_roles, roles, cluster_role_bindings, role_bindings,
                   service_accounts, pods, findings, stdout, stderr, exit_code>>

\* self.<collection> = the collections of c
SetCollections(c) ==
    /\ cluster_roles' = c.cluster_roles
    /\ roles' = c.roles
    /\ cluster_role_bindings' = c.cluster_role_bindings
    /\ role_bindings' = c.role_bindings
    /\ service_accounts' = c.service_accounts
    /\ pods' = c.pods

\* main: the banner and analyzer.load_yaml_files(args.path)
LoadYamlFiles ==
    /\ pc = "tree"
    /\ SetCollections(load_yaml_files(Collections, base_path, tree))
    /\ loads' = loads + 1
    /\ stdout' = stdout
                 \o <<Line("scanning", <<>>, base_path, <<>>, 0),
                      Line("threshold", <<fail_on>>, NoFile, <<>>, 0)>>
                 \o (IF include_attack_scenarios
                     THEN <<Say("attack_scenarios_enabled")>> ELSE <<>>)
                 \o <<Say("blank")>>
    /\ stderr' = stderr \o LoadWarnings(base_path, tree)
    /\ pc' = "loaded"
    /\ UNCHANGED script_vars
    /\ UNCHANGED <<base_path, tree, fail_on, include_attack_scenarios,
                   findings, exit_code>>

\* A caller invokes load_yaml_files again on the same analyzer instance.
LoadAgain ==
    /\ pc = "loaded"
    /\ loads < MaxLoads
    /\ SetCollections(load_yaml_files(Collections, base_path, tree))
    /\ loads' = loads + 1
    /\ stderr' = stderr \o LoadWarnings(base_path, tree)
    /\ UNCHANGED script_vars
    /\ UNCHANGED <<base_path, tree, fail_on, include_attack_scenarios, pc,
                   findings, stdout, exit_code>>

\* main: the "Loaded Resources" counts
PrintCounts ==
    /\ pc = "loaded"
    /\ stdout' = stdout
                 \o << Say("Loaded Resources:"),
                       Line("count", <<"ClusterRoles">>, NoFile, <<>>, Len(cluster_roles)),
                       Line("count", <<"Roles">>, NoFile, <<>>, Len(roles)),
                       Line("count", <<"ClusterRoleBindings">>, NoFile, <<>>, Len(cluster_role_bindings)),
                       Line("count", <<"RoleBindings">>, NoFile, <<>>, Len(role_bindings)),
                       Line("count", <<"ServiceAccounts">>, NoFile, <<>>, Len(service_accounts)),
                       Line("count", <<"Pods">>, NoFile, <<>>, Len(pods)) >>
    /\ pc' = "counted"
    /\ UNCHANGED script_vars
    /\ UNCHANGED <<base_path, tree, fail_on, include_attack_scenarios, loads,
                   cluster_roles, roles, cluster_role_bindings, role_bindings,
                   service_accounts, pods, findings, stderr, exit_code>>

\* one analysis step of main that returns: append its findings and its output
Analysis(from, to, raises, result) ==
    /\ pc = from
    /\ ~raises
    /\ findings' = findings \o result.findings
    /\ stdout' = stdout \o result.out
    /\ pc' = to
    /\ UNCHANGED script_vars
    /\ UNCHANGED <<base_path, tree, fail_on, include_attack_scenarios, loads,
                   cluster_roles, roles, cluster_role_bindings, role_bindings,
                   service_accounts, pods, stderr, exit_code>>

\* one analysis step of main that raises: nothing catches the exception, the
\* interpreter prints the traceback and the process ends with status 1.
\* The step's header is printed first; what the step printed and appended
\* for the items before the failing one is not kept.
Uncaught(from, raises, header) ==
    /\ pc = from
    /\ raises
    /\ stdout' = Append(stdout, Say(header))
    /\ stderr' = Append(stderr, Say("Traceback"))
    /\ exit_code' = 1
    /\ pc' = "crashed"
    /\ UNCHANGED script_vars
    /\ UNCHANGED <<base_path, tree, fail_on, include_attack_scenarios, loads,
                   cluster_roles, roles, cluster_role_bindings, role_bindings,
                   service_accounts, pods, findings>>

\* the dangerous-permission analysis started right after the load, before
\* the resource counts
AnalyzeDangerousPermissionsEarly ==
    Analysis("loaded", "dangerous", DangerousRaises(Collections),
             analyze_dangerous_permissions(Collections))

\* main: analyzer.analyze_dangerous_permissions()
AnalyzeDangerousPermissions ==
    Analysis("counted", "dangerous", DangerousRaises(Collections),
             analyze_dangerous_permissions(Collections))

CheckAggregatedRoles ==
    Analysis("dangerous", "aggregated", AggregatedRaises(Collections),
             check_aggregated_roles(Collections))

AnalyzePrivilegeChains ==
    Analysis("aggregated", "chains", ChainsRaise(Collections),
             analyze_privilege_chains(Collections))

AnalyzeDangerousPermissionsRaises ==
    Uncaught("counted", DangerousRaises(Collections),
             "### Dangerous Permission Analysis")

CheckAggregatedRolesRaises ==
    Uncaught("dangerous", AggregatedRaises(Collections),
             "### Aggregated ClusterRole Analysis")

AnalyzePrivilegeChainsRaises ==
    Uncaught("aggregated", ChainsRaise(Collections),
             "### RBAC Privilege Chain Analysis")

\* main: exit_code = analyzer.generate_report(...); sys.exit(exit_code)
GenerateReport ==
    /\ pc = "chains"
    /\ LET r == generate_report(findings, fail_on, include_attack_scenarios)
       IN  /\ stdout' = stdout \o r.out
           /\ exit_code' = r.code
    /\ pc' = "done"
    /\ UNCHANGED script_vars
    /\ UNCHANGED <<base_path, tree, fail_on, include_attack_scenarios, loads,
                   cluster_roles, roles, cluster_role_bindings, role_bindings,
                   service_accounts, pods, findings, stderr>>

\* the steps of main after the tree is written
Run ==
    \/ LoadYamlFiles
    \/ PrintCounts
    \/ AnalyzeDangerousPermissions
    \/ CheckAggregatedRoles
    \/ AnalyzePrivilegeChains
    \/ GenerateReport

\* the ways a step of main ends the run with an uncaught exception
Crash ==
    \/ AnalyzeDangerousPermissionsRaises
    \/ CheckAggregatedRolesRaises
    \/ AnalyzePrivilegeChainsRaises

\* ------------------------------------------------------------------------
\* The scanned repositories
\* ------------------------------------------------------------------------
RepoRoot == << <<"repo">> >>

FileStems == <<"a", "b", "c", "d", "e", "f">>

\* the i-th manifest of a tree whose files all lie in config/rbac
ManifestPath(i) == << <<"config">>, <<"rbac">>, <<FileStems[i], YamlSuffix>> >>

Builder == Subject("ServiceAccount", "dev", "builder")

Admins == Subject("Group", Missing, "admins")

Alice == Subject("User", Missing, "alice")

\* ClusterRoles with a wildcard resource, a wildcard verb, a dangerous
\* resource (miscased) and harmless rules, and the bindings that refer to them
RoleDocs ==
    { ClusterRoleDoc("viewer", <<Rule(<<"*">>, <<"get">>)>>),
      ClusterRoleDoc("viewer", <<Rule(<<"pods">>, <<"get">>), Rule(<<"pods">>, <<"*">>)>>),
      ClusterRoleDoc("viewer", <<Rule(<<"Secrets">>, <<"get">>)>>),
      ClusterRoleDoc("viewer", <<Rule(<<"pods">>, <<"get">>)>>),
      ClusterRoleDoc("editor", <<Rule(<<"nodes">>, <<"get">>)>>),
      ClusterRoleBindingDoc("viewer-crb", "viewer", <<Builder>>),
      ClusterRoleBindingDoc("editor-crb", "editor", <<Admins>>),
      RoleBindingDoc("viewer-rb", "dev", "ClusterRole", "viewer", <<Builder>>),
      RoleBindingDoc("viewer-admins", "dev", "ClusterRole", "viewer", <<Admins>>),
      RoleBindingDoc("viewer-role", "dev", "Role", "viewer", <<Builder>>),
      RoleBindingDoc("editor-rb", Missing, "ClusterRole", "editor", <<Alice, Admins>>) }

Next ==
    \/ WriteManifest({ManifestPath(Len(tree) + 1)}, RoleDocs)
    \/ Run

Init == InitWith({RepoRoot}, Range(severity_levels), BOOLEAN)

Spec == Init /\ [][Next]_vars

\* ------------------------------------------------------------------------
\* Properties of the report and of the dangerous-permission analysis (Spec)
\* ------------------------------------------------------------------------
\* the order INFO < WARNING < HIGH < CRITICAL
SeverityRank(severity) ==
    CASE severity = "INFO" -> 0
      [] severity = "WARNING" -> 1
      [] severity = "HIGH" -> 2
      [] severity = "CRITICAL" -> 3

AnalysedDangerous == pc \in {"dangerous", "aggregated", "chains", "done"}

DangerTitle(name) == <<"ClusterRole", name, "has dangerous permissions">>

\* the findings that analyze_dangerous_permissions emitted for a ClusterRole
DangerFindings(name) ==
    {i \in 1..Len(findings) : findings[i].title = DangerTitle(name)}

\* some ClusterRoleBinding refers to the role
BoundByClusterRoleBinding(name) ==
    \E i \in 1..Len(cluster_role_bindings) :
        cluster_role_bindings[i].doc.roleRef.name = name

\* some RoleBinding refers to the role as a ClusterRole
BoundByRoleBinding(name) ==
    \E i \in 1..Len(role_bindings) :
        /\ role_bindings[i].doc.roleRef.name = name
        /\ role_bindings[i].doc.roleRef.kind = "ClusterRole"

\* some rule of the loaded role has '*' among its verbs or its resources
HasWildcard(name) ==
    LET rules == DictGet(cluster_roles, name).rules
    IN  \E i \in 1..Len(rules) :
            "*" \in Range(rules[i].verbs) \cup Range(rules[i].resources)

\* C1: generate_report returns 1 iff some accumulated finding has a severity
\* at or above the fail-on threshold in the order INFO < WARNING < HIGH <
\* CRITICAL, and 0 otherwise.
C1_ExitCodeIffAtOrAboveThreshold ==
    pc = "done" =>
        /\ exit_code \in {0, 1}
        /\ exit_code = 1 <=>
              \E i \in 1..Len(findings) :
                  SeverityRank(findings[i].severity) >= SeverityRank(fail_on)

C1_Witness ==
    /\ pc = "done"
    /\ fail_on = "HIGH"
    /\ exit_code = 1
    /\ \E i \in 1..Len(findings) : findings[i].severity = "INFO"
    /\ \E i \in 1..Len(findings) : findings[i].severity = "HIGH"
    /\ \A i \in 1..Len(findings) : findings[i].severity # "CRITICAL"

\* C2: a ClusterRole that the binding-scope query reports unbound gets a
\* dangerous-permission finding of severity INFO only, whatever wildcards
\* it holds.
C2_UnboundIsInfo ==
    AnalysedDangerous =>
        \A name \in DictKeys(cluster_roles) :
            get_clusterrole_binding_scope(Collections, name).unbound =>
                \A i \in DangerFindings(name) : findings[i].severity = "INFO"

C2_Witness ==
    /\ AnalysedDangerous
    /\ \E name \in DictKeys(cluster_roles) :
        /\ get_clusterrole_binding_scope(Collections, name).unbound
        /\ HasWildcard(name)
        /\ \E i \in DangerFindings(name) : findings[i].severity = "INFO"

\* C3: a ClusterRole referenced by at least one ClusterRoleBinding and holding
\* a wildcard verb or resource gets exactly one finding, of severity
\* CRITICAL, also when RoleBindings refer to it as well.
C3_ClusterWideWildcardIsCritical ==
    AnalysedDangerous =>
        \A name \in DictKeys(cluster_roles) :
            BoundByClusterRoleBinding(name) /\ HasWildcard(name) =>
                /\ Cardinality(DangerFindings(name)) = 1
                /\ \A i \in DangerFindings(name) : findings[i].severity = "CRITICAL"

C3_Witness ==
    /\ AnalysedDangerous
    /\ \E name \in DictKeys(cluster_roles) :
        /\ BoundByClusterRoleBinding(name)
        /\ BoundByRoleBinding(name)
        /\ HasWildcard(name)
        /\ \E i \in DangerFindings(name) : findings[i].severity = "CRITICAL"

\* C4: a ClusterRole bound only through RoleBindings of kind ClusterRole and
\* holding no wildcard gets findings of severity WARNING only, whatever the
\* kinds of the subjects.
C4_NamespaceScopedPlainIsWarning ==
    AnalysedDangerous =>
        \A name \in DictKeys(cluster_roles) :
            /\ BoundByRoleBinding(name)
            /\ ~BoundByClusterRoleBinding(name)
            /\ ~HasWildcard(name)
            => \A i \in DangerFindings(name) : findings[i].severity = "WARNING"

\* a Group-only binding and, in the same run, the finding it leads to
C4_Witness ==
    /\ AnalysedDangerous
    /\ \E name \in DictKeys(cluster_roles) :
        /\ BoundByRoleBinding(name)
        /\ ~BoundByClusterRoleBinding(name)
        /\ ~HasWildcard(name)
        /\ get_clusterrole_binding_scope(Collections, name).subject_types.Group > 0
        /\ get_clusterrole_binding_scope(Collections, name).subject_types.ServiceAccount = 0
        /\ \E i \in DangerFindings(name) : findings[i].severity = "WARNING"

\* C5: a dangerous-permission finding is HIGH exactly for a role bound by a
\* ClusterRoleBinding without wildcard, or bound by RoleBindings only with a
\* wildcard.
C5_HighRows ==
    AnalysedDangerous =>
        \A name \in DictKeys(cluster_roles) : \A i \in DangerFindings(name) :
            findings[i].severity = "HIGH" <=>
                \/ BoundByClusterRoleBinding(name) /\ ~HasWildcard(name)
                \/ /\ ~BoundByClusterRoleBinding(name)
                   /\ BoundByRoleBinding(name)
                   /\ HasWildcard(name)

C5_Witness ==
    /\ AnalysedDangerous
    /\ \E name \in DictKeys(cluster_roles) :
        /\ ~BoundByClusterRoleBinding(name)
        /\ BoundByRoleBinding(name)
        /\ HasWildcard(name)
        /\ \E i \in DangerFindings(name) : findings[i].severity = "HIGH"

\* the findings with their attack_scenarios field emptied
WithoutScenarios(fs) ==
    [i \in 1..Len(fs) |-> [fs[i] EXCEPT !.attack_scenarios = <<>>]]

\* the last n lines of the output
LastLines(n) == SubSeq(stdout, Len(stdout) - n + 1, Len(stdout))

\* C6: with include_attack_scenarios false nothing of the ATTACK_SCENARIOS
\* catalog is printed, and the summary is the one printed for the same
\* findings without their attack_scenarios.
C6_NoScenariosByDefault ==
    pc = "done" /\ ~include_attack_scenarios =>
        /\ \A i \in 1..Len(stdout) : stdout[i].tag \notin {"scenario", "confidential"}
        /\ LET plain == generate_report(WithoutScenarios(findings), fail_on, FALSE).out
           IN  LastLines(Len(plain)) = plain

C6_Witness ==
    /\ pc = "done"
    /\ ~include_attack_scenarios
    /\ \E i \in 1..Len(findings) :
        Range(findings[i].attack_scenarios) \cap ATTACK_SCENARIOS # {}

\* the role names the binding-scope query is asked about
QueryNames == {"viewer", "editor", "nobody"}

\* C8: the binding-scope query reports cluster_wide iff a ClusterRoleBinding
\* refers to the name, namespace_scoped iff a RoleBinding refers to it with
\* kind ClusterRole, unbound iff neither; the step that runs the query leaves
\* the collections as they are.
C8_BindingScope ==
    /\ [](\A name \in QueryNames :
            LET scope == get_clusterrole_binding_scope(Collections, name)
            IN  /\ scope.cluster_wide <=> BoundByClusterRoleBinding(name)
                /\ scope.namespace_scoped <=> BoundByRoleBinding(name)
                /\ scope.unbound <=>
                      ~BoundByClusterRoleBinding(name) /\ ~BoundByRoleBinding(name))
    /\ [][pc = "counted" => UNCHANGED collection_vars]_vars

C8_Witness ==
    /\ pc = "dangerous"
    /\ LET scope == get_clusterrole_binding_scope(Collections, "viewer")
       IN  scope.namespace_scoped /\ ~scope.cluster_wide /\ ~scope.unbound
    /\ \E i \in 1..Len(role_bindings) :
        /\ role_bindings[i].doc.roleRef.kind = "Role"
        /\ role_bindings[i].doc.roleRef.name = "viewer"

\* ------------------------------------------------------------------------
\* Pods, ServiceAccounts and their bindings (SpecChains, SpecReload)
\* ------------------------------------------------------------------------
AdminSa == Subject("ServiceAccount", "prod", "admin-sa")

\* a ServiceAccount subject that names no namespace
DefaultSa == Subject("ServiceAccount", Missing, "default")

LocalAdminSa == Subject("ServiceAccount", Missing, "admin-sa")

ChainDocs ==
    { PodDoc("web", "prod", "admin-sa"),
      PodDoc("job", "prod", Missing),
      PodDoc("cron", Missing, Missing),
      ClusterRoleBindingDoc("admin-crb", "cluster-admin", <<AdminSa>>),
      ClusterRoleBindingDoc("admin-default", "cluster-admin", <<DefaultSa>>),
      ClusterRoleBindingDoc("view-crb", "view", <<AdminSa>>),
      ClusterRoleBindingDoc("admin-group", "cluster-admin",
                            <<Subject("Group", "prod", "admin-sa")>>),
      RoleBindingDoc("local-admin", "prod", "Role", "cluster-admin", <<DefaultSa>>),
      RoleBindingDoc("prod-view", "prod", "ClusterRole", "view", <<LocalAdminSa, AdminSa>>),
      ClusterRoleDoc("view", <<Rule(<<"Secrets">>, <<"Get">>)>>) }

NextChains ==
    \/ WriteManifest({ManifestPath(Len(tree) + 1)}, ChainDocs)
    \/ Run

InitChains == InitWith({RepoRoot}, {"CRITICAL"}, {FALSE})

SpecChains == InitChains /\ [][NextChains]_vars

\* load_yaml_files may be called again before the analyses run
NextReload ==
    \/ WriteManifest({ManifestPath(Len(tree) + 1)}, ChainDocs)
    \/ LoadAgain
    \/ Run

SpecReload == InitChains /\ [][NextReload]_vars

\* ------------------------------------------------------------------------
\* Trees with excluded and look-alike path segments (SpecLoad)
\* ------------------------------------------------------------------------
LoadPaths ==
    { << <<"config">>, <<"role", "bin", "dings">>, <<"admin", YamlSuffix>> >>,
      << <<"test">>, <<"rbac", YamlSuffix>> >>,
      << <<"config">>, <<"role", "bin", "ding", YamlSuffix>> >>,
      << <<"bin">>, <<"manager", YamlSuffix>> >>,
      << <<".git", "hub">>, <<"workflows">>, <<"ci", YamlSuffix>> >>,
      << <<"config">>, <<"tests", YamlSuffix>> >>,
      << <<"config">>, <<"docs", "-site">>, <<"rbac", YamlSuffix>> >>,
      << <<"config">>, <<"rbac", ".yml">> >> }

BindingDocs ==
    { RoleBindingDoc("viewer-rb", "dev", "ClusterRole", "viewer", <<Builder>>),
      ClusterRoleBindingDoc("admin-crb", "cluster-admin", <<AdminSa>>) }

NextLoad ==
    \/ WriteManifest(LoadPaths, BindingDocs)
    \/ Run

SpecLoad == InitChains /\ [][NextLoad]_vars

\* ------------------------------------------------------------------------
\* Properties of the privilege-chain walk, the loader and reloading
\* ------------------------------------------------------------------------
AnalysedChains == pc \in {"chains", "done"}

\* the ServiceAccount key of a loaded Pod: its namespace and its
\* serviceAccountName
PodSaKey(k) == <<pods[k].key[1], pods[k].val.serviceAccount>>

\* the binding map grants the ServiceAccount a role named cluster-admin
HasClusterAdminGrant(sa_key) ==
    LET sa_permissions == SaPermissions(Collections)
    IN  /\ DictHas(sa_permissions, sa_key)
        /\ \E perm \in Range(DictGet(sa_permissions, sa_key)) :
                perm.role = "cluster-admin"

AdminTitle(pod_key) ==
    <<"Pod", pod_key[1], "/", pod_key[2], "has cluster-admin access">>

\* C7: a Pod gets a CRITICAL finding naming its namespace/name key and
\* cluster-admin iff the binding map grants its ServiceAccount a role named
\* cluster-admin.
C7_ClusterAdminPods ==
    AnalysedChains =>
        \A k \in 1..Len(pods) :
            HasClusterAdminGrant(PodSaKey(k)) <=>
                \E i \in 1..Len(findings) :
                    /\ findings[i].severity = "CRITICAL"
                    /\ findings[i].title = AdminTitle(pods[k].key)

\* the scenario: prod/web runs as admin-sa, bound to cluster-admin by a
\* ClusterRoleBinding, next to a Pod without such a grant
C7_Witness ==
    /\ AnalysedChains
    /\ \E k \in 1..Len(pods) :
        /\ pods[k].key = <<"prod", "web">>
        /\ HasClusterAdminGrant(PodSaKey(k))
        /\ \E i \in 1..Len(findings) :
            /\ findings[i].severity = "CRITICAL"
            /\ findings[i].title = AdminTitle(<<"prod", "web">>)
    /\ \E k \in 1..Len(pods) : ~HasClusterAdminGrant(PodSaKey(k))

\* a file of the tree has been loaded: some collection entry comes from it
Loaded(file) ==
    \E i \in 1..Len(cluster_role_bindings \o role_bindings) :
        (cluster_role_bindings \o role_bindings)[i].file = base_path \o file.path

AllFindings(c) ==
    analyze_dangerous_permissions(c).findings
    \o check_aggregated_roles(c).findings
    \o analyze_privilege_chains(c).findings

\* the findings of a run that loads the tree once into a fresh analyzer
OnceFindings == AllFindings(load_yaml_files(EmptyCollections, base_path, tree))

Count(fs, f) == Cardinality({i \in 1..Len(fs) : fs[i] = f})

IsAdminFinding(f) ==
    /\ f.severity = "CRITICAL"
    /\ Len(f.title) = 5
    /\ f.title[1] = "Pod"
    /\ f.title[5] = "has cluster-admin access"

\* C10 as stated: however often the tree is loaded into the analyzer, the
\* findings are those of a single load, with the same multiplicities.
C10_ReloadSameFindings ==
    pc = "done" =>
        \A f \in Range(findings) \cup Range(OnceFindings) :
            Count(findings, f) = Count(OnceFindings, f)

\* C10: loading the tree again into the same analyzer leaves the distinct
\* findings and the multiplicity of every finding unchanged, except that
\* each "Pod ... has cluster-admin access" finding is emitted once per load.
C10_ReloadFindings ==
    pc = "done" =>
        \A f \in Range(findings) \cup Range(OnceFindings) :
            Count(findings, f) =
                (IF IsAdminFinding(f) THEN loads ELSE 1) * Count(OnceFindings, f)

C10_Witness ==
    /\ pc = "done"
    /\ loads = 2
    /\ \E i \in 1..Len(findings) : IsAdminFinding(findings[i])
    /\ \E i \in 1..Len(findings) : findings[i].severity = "WARNING"

\* ------------------------------------------------------------------------
\* Manifests that parse but are not what the analyses expect (SpecMalformed)
\* ------------------------------------------------------------------------
Ops == Subject("Group", Missing, "ops")

MalformedDocs ==
    { ClusterRoleDoc("viewer", <<Rule(<<"secrets">>, <<"get">>)>>),
      ClusterRoleDoc("reader", <<Rule(<<"pods">>, <<"get">>)>>),
      ClusterRoleBindingDoc(Missing, "viewer", <<Ops>>),
      ClusterRoleBindingDoc(Missing, "reader", <<Builder>>),
      RoleBindingDoc(Missing, "dev", "ClusterRole", "viewer", <<Ops>>),
      ClusterRoleBindingDoc("reader-crb", "reader", <<Builder>>),
      PodDoc("build", "dev", "builder"),
      WithNull(ClusterRoleDoc("empty", <<>>), "rules"),
      WithNull([ClusterRoleDoc("sum", <<>>) EXCEPT
                    !.aggregationRule = [present |-> TRUE, has_selectors |-> FALSE,
                                         selectors |-> <<>>]],
               "aggregationRule"),
      ClusterRoleDoc("numbered", <<Rule(<<"pods">>, <<NotAString>>)>>) }

NextMalformed ==
    \/ WriteManifest({ManifestPath(Len(tree) + 1)}, MalformedDocs)
    \/ Run
    \/ Crash

SpecMalformed == InitChains /\ [][NextMalformed]_vars

\* C11: whatever the manifests hold, the run does not end with an uncaught
\* error: it goes on to the report and exits through it.
C11_NoUncaughtError == pc # "crashed"

\* ------------------------------------------------------------------------
\* Files of several documents, some of which do not parse (SpecParse)
\* ------------------------------------------------------------------------
ConfigFile(name, docs, braces) ==
    [path |-> << <<"config">>, name >>, docs |-> docs, braces |-> braces]

FirstBinding == RoleBindingDoc("first", "dev", "Role", "reader", <<Builder>>)

LastBinding == ClusterRoleBindingDoc("last", "reader", <<Builder>>)

ParseFiles ==
    { ConfigFile(<<"good", YamlSuffix>>, <<FirstBinding>>, FALSE),
      ConfigFile(<<"multi", YamlSuffix>>, <<FirstBinding, ParseErrorDoc, LastBinding>>, FALSE),
      ConfigFile(<<"broken", ".tmpl", YamlSuffix>>, <<ParseErrorDoc>>, FALSE),
      ConfigFile(<<"values", YamlSuffix>>, <<LastBinding, ParseErrorDoc>>, TRUE),
      ConfigFile(<<"bad", YamlSuffix>>, <<ParseErrorDoc>>, FALSE),
      ConfigFile(<<"nokind", YamlSuffix>>,
                 <<Doc(Missing, "x", Missing, <<>>, NoAggregation, NoRef, <<>>, Missing),
                   LastBinding>>, FALSE),
      ConfigFile(<<"ok", ".template", YamlSuffix>>, <<FirstBinding>>, FALSE) }

NextParse ==
    \/ WriteFile(ParseFiles)
    \/ Run

SpecParse == InitChains /\ [][NextParse]_vars

\* the file holds a document that fails to parse
FailsToParse(file) == \E k \in 1..Len(file.docs) : file.docs[k].kind = ParseError

\* the error stream holds a warning about the file
Warned(file) ==
    \E i \in 1..Len(stderr) :
        /\ stderr[i].tag = "Warning: Failed to parse"
        /\ stderr[i].file = base_path \o file.path

\* the binding document of the file is in the collections
DocLoaded(file, doc) ==
    \E i \in 1..Len(cluster_role_bindings \o role_bindings) :
        /\ (cluster_role_bindings \o role_bindings)[i].file = base_path \o file.path
        /\ (cluster_role_bindings \o role_bindings)[i].doc = doc

\* C12: a file with a document that fails to parse is warned about iff it is
\* not a template, and every document that parses and has a kind is loaded,
\* those of the failing file included.
C12_FailingDocumentSkipped ==
    pc # "tree" =>
        \A k \in 1..Len(tree) :
            /\ Warned(tree[k]) <=>
                    (FailsToParse(tree[k]) /\ ~IsTemplate(base_path \o tree[k].path, tree[k]))
            /\ \A n \in 1..Len(tree[k].docs) :
                    tree[k].docs[n].kind \notin {ParseError, Missing}
                        => DocLoaded(tree[k], tree[k].docs[n])

\* what does hold of C12: the warning, the rest of the scan, and the
\* documents of the failing file that come before the failing one
C12_WarnedAndScanGoesOn ==
    pc # "tree" =>
        \A k \in 1..Len(tree) :
            /\ Warned(tree[k]) <=>
                    (FailsToParse(tree[k]) /\ ~IsTemplate(base_path \o tree[k].path, tree[k]))
            /\ \A n \in 1..Len(tree[k].docs) :
                    tree[k].docs[n].kind \notin {ParseError, Missing}
                        => (DocLoaded(tree[k], tree[k].docs[n])
                                <=> \A j \in 1..(n - 1) : tree[k].docs[j].kind # ParseError)

\* ------------------------------------------------------------------------
\* Properties of the per-ServiceAccount binding map (SpecChains)
\* ------------------------------------------------------------------------
\* the loaded bindings, each with the kind of its list
LoadedBindings ==
    [i \in 1..Len(cluster_role_bindings) |->
        [binding |-> cluster_role_bindings[i], cluster |-> TRUE]]
    \o [i \in 1..Len(role_bindings) |->
        [binding |-> role_bindings[i], cluster |-> FALSE]]

\* the (binding, subject) pairs whose subject is a ServiceAccount
ServiceAccountPairs ==
    UNION { { <<i, k>> : k \in {n \in 1..Len(LoadedBindings[i].binding.doc.subjects) :
                LoadedBindings[i].binding.doc.subjects[n].kind = "ServiceAccount"} } :
            i \in 1..Len(LoadedBindings) }

\* the key the claim files a pair under
PairKey(p) ==
    LET b == LoadedBindings[p[1]]
        subject == b.binding.doc.subjects[p[2]]
    IN  << IF subject.namespace # Missing THEN subject.namespace
           ELSE IF b.cluster THEN "default"
           ELSE b.binding.doc.namespace,
           subject.name >>

\* the entry the claim expects for a pair
PairEntry(p) ==
    LET b == LoadedBindings[p[1]]
    IN  [type |-> IF b.cluster THEN "ClusterRole" ELSE b.binding.doc.roleRef.kind,
         role |-> b.binding.doc.roleRef.name,
         binding |-> b.binding.doc.name,
         file |-> b.binding.file]

\* C13: the binding map holds, under each key, exactly one entry per
\* (binding, subject) pair with a ServiceAccount subject that the key rule
\* files there, with the type the claim gives it, and nothing else.
C13_OneEntryPerServiceAccountSubject ==
    pc # "tree" =>
        LET sa_permissions == SaPermissions(Collections)
        IN  /\ DictKeys(sa_permissions) = {PairKey(p) : p \in ServiceAccountPairs}
            /\ \A key \in DictKeys(sa_permissions) :
                LET entries == DictGet(sa_permissions, key)
                IN  /\ Len(entries) =
                            Cardinality({p \in ServiceAccountPairs : PairKey(p) = key})
                    /\ \A p \in ServiceAccountPairs :
                            PairKey(p) = key =>
                                Count(entries, PairEntry(p)) =
                                    Cardinality({q \in ServiceAccountPairs :
                                                    /\ PairKey(q) = key
                                                    /\ PairEntry(q) = PairEntry(p)})

\* one binding files two ServiceAccount subjects under one key, a
\* ClusterRoleBinding subject falls back to namespace default, and a Group
\* subject is loaded
C13_Witness ==
    /\ pc = "chains"
    /\ \E p, q \in ServiceAccountPairs :
            /\ p[1] = q[1] /\ p[2] # q[2]
            /\ PairKey(p) = PairKey(q)
            /\ ~LoadedBindings[p[1]].cluster
    /\ \E p \in ServiceAccountPairs :
            /\ LoadedBindings[p[1]].cluster
            /\ LoadedBindings[p[1]].binding.doc.subjects[p[2]].namespace = Missing
    /\ \E i \in 1..Len(cluster_role_bindings) :
            cluster_role_bindings[i].doc.subjects[1].kind = "Group"

\* ------------------------------------------------------------------------
\* Properties of the RoleBinding warning (SpecChains)
\* ------------------------------------------------------------------------
CrossTitle(name) == <<"RoleBinding", name, "grants cluster-wide permissions">>

\* the number of WARNING findings about the binding name
CrossWarnings(name) ==
    Cardinality({i \in 1..Len(findings) :
                    /\ findings[i].severity = "WARNING"
                    /\ findings[i].title = CrossTitle(name)})

\* the ServiceAccount keys the subjects of a RoleBinding name
RoleBindingKeys(binding) ==
    { << Get(binding.doc.subjects[k].namespace, Get(binding.doc.namespace, "default")),
         binding.doc.subjects[k].name >> :
        k \in {n \in 1..Len(binding.doc.subjects) :
                    binding.doc.subjects[n].kind = "ServiceAccount"} }

\* some loaded Pod runs as a ServiceAccount the RoleBinding names
ReachedFromPod(binding) ==
    \E k \in 1..Len(pods) : PodSaKey(k) \in RoleBindingKeys(binding)

Selectors == [present |-> TRUE, has_selectors |-> TRUE, selectors |-> <<"rbac/aggregate">>]

NoSelectors == [present |-> TRUE, has_selectors |-> FALSE, selectors |-> <<>>]

RuleDocs ==
    { ClusterRoleDoc("a", <<Rule(<<"pods">>, <<"Create">>)>>),
      ClusterRoleDoc("a", <<Rule(<<"secrets">>, <<"create">>), Rule(<<"pods">>, <<"get">>)>>),
      ClusterRoleDoc("a", <<Rule(<<"configmaps">>, <<"create">>), Rule(<<"pods">>, <<"get">>)>>),
      ClusterRoleDoc("b", <<Rule(<<"roles">>, <<"create">>)>>),
      ClusterRoleDoc("b", <<Rule(<<"rolebindings">>, <<"patch">>),
                            Rule(<<"roles", "pods">>, <<"update", "create">>)>>),
      ClusterRoleDoc("c", <<Rule(<<"configmaps">>, <<"Escalate">>)>>),
      ClusterRoleDoc("c", <<Rule(<<"pods/attach">>, <<"get">>)>>),
      ClusterRoleDoc("d", <<Rule(<<"pods/exec">>, <<"impersonate">>),
                            Rule(<<"*">>, <<"*">>)>>),
      ClusterRoleDoc("d", <<Rule(<<"configmaps">>, <<"bind">>)>>),
      [ClusterRoleDoc("e", <<>>) EXCEPT !.aggregationRule = Selectors],
      [ClusterRoleDoc("e", <<Rule(<<"nodes">>, <<"get">>)>>) EXCEPT
            !.aggregationRule = NoSelectors],
      ClusterRoleBindingDoc("a-crb", "a", <<Builder>>) }

NextRules ==
    \/ WriteManifest({ManifestPath(Len(tree) + 1)}, RuleDocs)
    \/ Run

InitRules == InitWith({RepoRoot}, {"CRITICAL"}, BOOLEAN)

SpecRules == InitRules /\ [][NextRules]_vars

\* ------------------------------------------------------------------------
\* Properties of the findings per ClusterRole (SpecRules)
\* ------------------------------------------------------------------------
\* the rule has, after lower-casing, one of the verbs and one of the resources
RuleGrants(rule, verbs, resources) ==
    /\ \E i \in 1..Len(rule.verbs) : Lower(rule.verbs[i]) \in verbs
    /\ \E i \in 1..Len(rule.resources) : Lower(rule.resources[i]) \in resources

\* the rule alone triggers the role-editing combination
EditsRoles(rule) ==
    RuleGrants(rule, {"create", "patch", "update"},
               {"roles", "clusterroles", "rolebindings", "clusterrolebindings"})

\* the rule alone triggers the create-on-pods combination
CreatesPods(rule) == RuleGrants(rule, {"create"}, {"pods"})

\* the role qualifies for a finding as C15 words it
Qualifies(rules) ==
    \E k \in 1..Len(rules) :
        \/ \E i \in 1..Len(rules[k].verbs) :
                Lower(rules[k].verbs[i]) \in {"escalate", "impersonate", "bind", "*"}
        \/ \E i \in 1..Len(rules[k].resources) :
                Lower(rules[k].resources[i]) \in
                    {"*", "secrets", "persistentvolumes", "nodes", "clusterroles",
                     "clusterrolebindings", "pods/exec", "pods/attach"}
        \/ EditsRoles(rules[k])
        \/ CreatesPods(rules[k])

\* C15: after the dangerous-permission analysis a loaded ClusterRole has
\* exactly one finding if it qualifies and none otherwise, so never more
\* than one per name.
C15_OneFindingPerQualifyingRole ==
    AnalysedDangerous =>
        \A i \in 1..Len(cluster_roles) :
            Cardinality(DangerFindings(cluster_roles[i].key)) =
                IF Qualifies(cluster_roles[i].val.rules) THEN 1 ELSE 0

\* a role with a miscased dangerous verb and a role with several issues in
\* two rules have one finding each, a role with benign rules has none
C15_Witness ==
    /\ pc = "dangerous"
    /\ \E i \in 1..Len(cluster_roles) :
            /\ cluster_roles[i].val.rules = <<Rule(<<"configmaps">>, <<"Escalate">>)>>
            /\ Cardinality(DangerFindings(cluster_roles[i].key)) = 1
    /\ \E i \in 1..Len(cluster_roles) :
            /\ Len(cluster_roles[i].val.rules) = 2
            /\ Len(FindingsForRole(RoleIssues(cluster_roles[i].val.rules))) > 2
            /\ Cardinality(DangerFindings(cluster_roles[i].key)) = 1
    /\ \E i \in 1..Len(cluster_roles) :
            /\ ~Qualifies(cluster_roles[i].val.rules)
            /\ DangerFindings(cluster_roles[i].key) = {}

AnalysedAggregated == pc \in {"aggregated", "chains", "done"}

AggregatedTitle(name) == <<"Aggregated ClusterRole detected:", name>>

\* the INFO findings that check_aggregated_roles emitted for a ClusterRole
AggregatedFindings(name) ==
    {i \in 1..Len(findings) :
        /\ findings[i].severity = "INFO"
        /\ findings[i].title = AggregatedTitle(name)}

\* C16: after the aggregated-role check a loaded ClusterRole has exactly one
\* INFO finding 'Aggregated ClusterRole detected' if it declares
\* aggregationRule.clusterRoleSelectors, and none if it does not.
C16_AggregatedIffSelectors ==
    AnalysedAggregated =>
        \A i \in 1..Len(cluster_roles) :
            Cardinality(AggregatedFindings(cluster_roles[i].key)) =
                IF cluster_roles[i].val.doc.aggregationRule.has_selectors THEN 1 ELSE 0

\* the two escalation combinations as C17 lists them
ClaimedCombos ==
    << [verbs |-> {"create", "patch", "update"},
        resources |-> {"roles", "clusterroles", "rolebindings", "clusterrolebindings"}],
       [verbs |-> {"create"}, resources |-> {"pods"}] >>

\* how often the issue text of the combination stands in the findings of
\* the ClusterRole
ComboReports(name, combo) ==
    Cardinality(
        UNION { { <<f, j>> : j \in {n \in 1..Len(findings[f].description) :
                    findings[f].description[n] =
                        Part("Escalation risk", combo.verbs, combo.resources)} } :
                f \in DangerFindings(name) })

\* C17: a combination is reported for a ClusterRole iff one single rule has
\* a verb of its verb-set and a resource of its resource-set, and then its
\* issue text stands once in the role's finding.
C17_ComboNeedsSingleRule ==
    AnalysedDangerous =>
        \A i \in 1..Len(cluster_roles) : \A c \in 1..Len(ClaimedCombos) :
            ComboReports(cluster_roles[i].key, ClaimedCombos[c]) =
                IF \E k \in 1..Len(cluster_roles[i].val.rules) :
                        RuleGrants(cluster_roles[i].val.rules[k],
                                   ClaimedCombos[c].verbs, ClaimedCombos[c].resources)
                THEN 1 ELSE 0

\* a role whose two rules both trigger the first combination reports it
\* once; a role with create in one rule and pods in another has a finding
\* that reports no combination
C17_Witness ==
    /\ pc = "dangerous"
    /\ \E i \in 1..Len(cluster_roles) :
            /\ Len(cluster_roles[i].val.rules) = 2
            /\ \A k \in 1..2 : EditsRoles(cluster_roles[i].val.rules[k])
            /\ ComboReports(cluster_roles[i].key, ClaimedCombos[1]) = 1
    /\ \E i \in 1..Len(cluster_roles) :
            /\ cluster_roles[i].val.rules =
                    <<Rule(<<"secrets">>, <<"create">>), Rule(<<"pods">>, <<"get">>)>>
            /\ DangerFindings(cluster_roles[i].key) # {}
            /\ ComboReports(cluster_roles[i].key, ClaimedCombos[2]) = 0

\* some rule of the role has the verb, resp. the resource, after lower-casing
HasVerb(rules, verb) ==
    \E k \in 1..Len(rules) : \E i \in 1..Len(rules[k].verbs) :
        Lower(rules[k].verbs[i]) = verb

HasResource(rules, resource) ==
    \E k \in 1..Len(rules) : \E i \in 1..Len(rules[k].resources) :
        Lower(rules[k].resources[i]) = resource

\* the catalog keys that C18 gives a role
ClaimedScenarios(rules) ==
    (IF HasResource(rules, "*") THEN {"wildcard_resources"} ELSE {})
    \cup (IF HasVerb(rules, "*") THEN {"wildcard_verbs"} ELSE {})
    \cup (IF HasVerb(rules, "escalate") THEN {"dangerous_verb_escalate"} ELSE {})
    \cup (IF HasVerb(rules, "impersonate") THEN {"dangerous_verb_impersonate"} ELSE {})
    \cup (IF HasResource(rules, "secrets") THEN {"dangerous_resource_secrets"} ELSE {})
    \cup (IF HasResource(rules, "pods/exec") THEN {"dangerous_resource_pods_exec"} ELSE {})
    \cup (IF \E k \in 1..Len(rules) : CreatesPods(rules[k])
          THEN {"escalation_create_pods"} ELSE {})
    \cup (IF \E k \in 1..Len(rules) :
                RuleGrants(rules[k], {"create", "patch", "update"},
                           {"rolebindings", "clusterrolebindings"})
          THEN {"escalation_create_rolebindings"} ELSE {})

\* C18: the attack_scenarios of a ClusterRole's finding are exactly the
\* catalog keys that match the issues of the role, each a key of
\* ATTACK_SCENARIOS and none listed twice.
C18_ScenariosMatchIssues ==
    AnalysedDangerous =>
        \A i \in 1..Len(cluster_roles) : \A f \in DangerFindings(cluster_roles[i].key) :
            /\ Range(findings[f].attack_scenarios) =
                    ClaimedScenarios(cluster_roles[i].val.rules)
            /\ Range(findings[f].attack_scenarios) \subseteq ATTACK_SCENARIOS
            /\ Len(findings[f].attack_scenarios) =
                    Cardinality(Range(findings[f].attack_scenarios))

\* ------------------------------------------------------------------------
\* Properties of the summary report (SpecRules)
\* ------------------------------------------------------------------------
\* where the summary starts on standard output
SummaryStart ==
    CHOOSE i \in 1..Len(stdout) : stdout[i].tag = "## RBAC SECURITY FINDINGS SUMMARY"

\* the printed summary
Summary == SubSeq(stdout, SummaryStart, Len(stdout))

\* the section headers of the summary, in the order they are printed
SectionHeaders == SelectSeq(Summary, LAMBDA l : l.tag = "section")

\* the section a line of the summary stands in
SectionOf(j) ==
    Summary[CHOOSE i \in 1..j :
                /\ Summary[i].tag = "section"
                /\ \A k \in (i + 1)..j : Summary[k].tag # "section"].text[1]

\* the findings as the summary renders them: section, number, title, file
\* and issue, in the order they are printed
Rendered ==
    LET at == SelectSeq([j \in 1..Len(Summary) |-> j],
                        LAMBDA j : Summary[j].tag = "title")
    IN  [n \in 1..Len(at) |->
            [severity |-> SectionOf(at[n]), i |-> Summary[at[n]].n,
             title |-> Summary[at[n]].text, file |-> Summary[at[n] + 1].file,
             description |-> Summary[at[n] + 2].parts]]

\* the accumulated findings of one severity, numbered in emission order
Emitted(severity) ==
    LET group == SelectSeq(findings, LAMBDA f : f.severity = severity)
    IN  [n \in 1..Len(group) |->
            [severity |-> severity, i |-> n, title |-> group[n].title,
             file |-> group[n].file, description |-> group[n].description]]

RECURSIVE SumOfCounts(_)
SumOfCounts(headers) ==
    IF headers = <<>> THEN 0 ELSE Head(headers).n + SumOfCounts(Tail(headers))

\* C19: the summary has the sections CRITICAL, HIGH, WARNING, INFO in that
\* order without the empty ones; it renders every accumulated finding once,
\* in the section of its severity and in emission order; the printed total
\* is the sum of the section counts.
C19_ReportSections ==
    pc = "done" =>
        /\ [i \in 1..Len(SectionHeaders) |-> SectionHeaders[i].text[1]] =
                SelectSeq(<<"CRITICAL", "HIGH", "WARNING", "INFO">>,
                          LAMBDA severity : \E i \in 1..Len(findings) :
                                                findings[i].severity = severity)
        /\ Rendered = Emitted("CRITICAL") \o Emitted("HIGH")
                        \o Emitted("WARNING") \o Emitted("INFO")
        /\ Len(Rendered) = Len(findings)
        /\ \A i \in 1..Len(SectionHeaders) :
                SectionHeaders[i].n = Len(Emitted(SectionHeaders[i].text[1]))
        /\ \E j \in 1..Len(Summary) :
                /\ Summary[j].tag = "total"
                /\ Summary[j].n = SumOfCounts(SectionHeaders)

\* a summary of two sections, the later one with two findings that were
\* emitted before the finding of the earlier one
C19_Witness ==
    /\ pc = "done"
    /\ Len(SectionHeaders) = 2
    /\ SectionHeaders[2].n = 2
    /\ \E i, j \in 1..Len(findings) :
            /\ i < j
            /\ findings[i].severity = SectionHeaders[2].text[1]
            /\ findings[j].severity = SectionHeaders[1].text[1]

\* ------------------------------------------------------------------------
\* Properties of the order of the phases (Spec)
\* ------------------------------------------------------------------------
\* the phases of a run, in the order C20 gives them
Phases == <<"tree", "loaded", "counted", "dangerous", "aggregated", "chains", "done">>

PhaseRank(p) == CHOOSE i \in 1..Len(Phases) : Phases[i] = p

\* the first line each phase prints
PhaseHeaders ==
    <<"scanning", "Loaded Resources:", "### Dangerous Permission Analysis",
      "### Aggregated ClusterRole Analysis", "### RBAC Privilege Chain Analysis",
      "## RBAC SECURITY FINDINGS SUMMARY">>

\* the phase headers on standard output, in the order they were printed
PrintedHeaders ==
    LET heads == SelectSeq(stdout, LAMBDA l : l.tag \in Range(PhaseHeaders))
    IN  [i \in 1..Len(heads) |-> heads[i].tag]

\* C20: every step of a run enters the next phase of load -> counts ->
\* dangerous -> aggregated -> chains -> summary; the collections change in
\* the load step only, the findings change in the three analysis steps only
\* (after the load, before the summary), and a finished run has printed
\* each phase once, in that order, and has set its exit code.
C20_PhasesOnceInOrder ==
    /\ [][/\ pc' # pc => /\ pc # "done"
                         /\ PhaseRank(pc') = PhaseRank(pc) + 1
          /\ collection_vars' # collection_vars => pc = "tree" /\ pc' = "loaded"
          /\ findings' # findings => /\ pc \in {"counted", "dangerous", "aggregated"}
                                    /\ pc' \in {"dangerous", "aggregated", "chains"}
          /\ pc = "done" => UNCHANGED vars]_vars
    /\ [](pc = "done" => /\ PrintedHeaders = PhaseHeaders
                         /\ loads = 1
                         /\ exit_code \in {0, 1})
    /\ [](pc # "done" => exit_code = -1)

\* a finished run that loaded manifests and emitted findings
C20_Witness ==
    /\ pc = "done"
    /\ Len(cluster_roles) > 0
    /\ Len(cluster_role_bindings) > 0
    /\ Len(findings) > 1
    /\ PrintedHeaders = PhaseHeaders

\* ------------------------------------------------------------------------
\* Properties of ClusterRoles that share a name (SpecRules)
\* ------------------------------------------------------------------------
\* the files of the tree that hold a ClusterRole, in the order they are read
ClusterRoleFiles == SelectSeq(tree, LAMBDA f : f.docs[1].kind = "ClusterRole")

\* the files of the tree that hold something else
OtherFiles == SelectSeq(tree, LAMBDA f : f.docs[1].kind # "ClusterRole")

\* the last file that holds a ClusterRole of the name
LastOfName(name) ==
    ClusterRoleFiles[CHOOSE k \in 1..Len(ClusterRoleFiles) :
        /\ ClusterRoleFiles[k].docs[1].name = name
        /\ \A j \in (k + 1)..Len(ClusterRoleFiles) :
                ClusterRoleFiles[j].docs[1].name # name]

\* C22: after the load cluster_roles has one entry per distinct ClusterRole
\* name, each with the rules, the file and the document of the last-loaded
\* ClusterRole of that name; nothing is printed to the error stream, and the
\* other collections are what the tree without its ClusterRoles gives.
C22_LastClusterRoleWins ==
    pc # "tree" =>
        LET names == {ClusterRoleFiles[k].docs[1].name : k \in 1..Len(ClusterRoleFiles)}
            rest == load_yaml_files(EmptyCollections, base_path, OtherFiles)
        IN  /\ DictKeys(cluster_roles) = names
            /\ Len(cluster_roles) = Cardinality(names)
            /\ \A name \in names :
                    DictGet(cluster_roles, name) =
                        [rules |-> LastOfName(name).docs[1].rules,
                         file |-> base_path \o LastOfName(name).path,
                         doc |-> LastOfName(name).docs[1]]
            /\ stderr = <<>>
            /\ roles = rest.roles
            /\ cluster_role_bindings = rest.cluster_role_bindings
            /\ role_bindings = rest.role_bindings
            /\ service_accounts = rest.service_accounts
            /\ pods = rest.pods

\* two ClusterRoles of one name with different rules were loaded, next to a
\* ClusterRoleBinding
C22_Witness ==
    /\ pc = "loaded"
    /\ \E j, k \in 1..Len(ClusterRoleFiles) :
            /\ j < k
            /\ ClusterRoleFiles[j].docs[1].name = ClusterRoleFiles[k].docs[1].name
            /\ ClusterRoleFiles[j].docs[1].rules # ClusterRoleFiles[k].docs[1].rules
    /\ Len(cluster_roles) = 1
    /\ Len(cluster_role_bindings) = 1

\* ------------------------------------------------------------------------
\* A ClusterRoleBinding and a RoleBinding of one name (SpecShared)
\* ------------------------------------------------------------------------
SharedDocs ==
    { PodDoc("web", "prod", "admin-sa"),
      ClusterRoleBindingDoc("shared", "view", <<AdminSa>>),
      RoleBindingDoc("shared", "prod", "Role", "local", <<DefaultSa>>),
      RoleBindingDoc("prod-view", "prod", "ClusterRole", "view", <<AdminSa>>),
      RoleBindingDoc("prod-local", "prod", "Role", "local", <<AdminSa>>),
      ClusterRoleBindingDoc("view-crb", "view", <<AdminSa>>) }

NextShared ==
    \/ WriteManifest({ManifestPath(Len(tree) + 1)}, SharedDocs)
    \/ Run

SpecShared == InitChains /\ [][NextShared]_vars

\* the finding is the RoleBinding warning, whatever the name
IsCrossWarning(f) ==
    /\ f.severity = "WARNING"
    /\ Len(f.title) = 3
    /\ f.title[1] = "RoleBinding"
    /\ f.title[3] = "grants cluster-wide permissions"

\* C28: every RoleBinding warning names a loaded RoleBinding whose
\* roleRef.kind is ClusterRole and carries the file of that RoleBinding; a
\* grant that comes from a ClusterRoleBinding produces none.
C28_WarningOnlyFromRoleBinding ==
    AnalysedChains =>
        \A i \in 1..Len(findings) :
            IsCrossWarning(findings[i]) =>
                \E k \in 1..Len(role_bindings) :
                    /\ role_bindings[k].doc.name = findings[i].title[2]
                    /\ role_bindings[k].doc.roleRef.kind = "ClusterRole"
                    /\ role_bindings[k].file = findings[i].file

\* ------------------------------------------------------------------------
\* Properties of the subject counts of the binding-scope query (Spec)
\* ------------------------------------------------------------------------
\* the loaded bindings that determine the scope of the ClusterRole
ScopeBindings(name) ==
    SelectSeq(cluster_role_bindings, LAMBDA b : b.doc.roleRef.name = name)
    \o SelectSeq(role_bindings,
                 LAMBDA b : b.doc.roleRef.name = name /\ b.doc.roleRef.kind = "ClusterRole")

\* the subjects of the given kind among the bindings
RECURSIVE SubjectsOfKind(_, _)
SubjectsOfKind(bindings, kind) ==
    IF bindings = <<>> THEN 0
    ELSE Cardinality({i \in 1..Len(Head(bindings).doc.subjects) :
                        Head(bindings).doc.subjects[i].kind = kind})
         + SubjectsOfKind(Tail(bindings), kind)

\* C29: the subject counts of the binding-scope query count the subjects of
\* the bindings that determine the scope and no others, so they are all 0
\* when the query reports unbound.
C29_CountsFollowScope ==
    \A name \in QueryNames :
        LET scope == get_clusterrole_binding_scope(Collections, name)
        IN  /\ scope.unbound =>
                    /\ scope.subject_types.ServiceAccount = 0
                    /\ scope.subject_types.Group = 0
                    /\ scope.subject_types.User = 0
            /\ \A kind \in {"ServiceAccount", "Group", "User"} :
                    scope.subject_types[kind] = SubjectsOfKind(ScopeBindings(name), kind)

\* ------------------------------------------------------------------------
\* One tree scanned from several root locations (SpecRoots)
\* ------------------------------------------------------------------------
\* the current directory, a checkout below a directory named test, and a
\* checkout whose directory name only contains an excluded name
Roots ==
    { <<>>,
      RepoRoot,
      << <<"work">>, <<"test">>, <<"repo">> >>,
      << <<"work">>, <<"role", "bin", "dings">> >> }

InitRoots == InitWith(Roots, {"CRITICAL"}, {FALSE})

SpecRoots == InitRoots /\ [][NextLoad]_vars

\* C30: whether a *.yaml file is loaded depends on the path segments below
\* the scanned root only: it is loaded iff none of them is an excluded name,
\* wherever the root lies.
C30_ExclusionBelowRootOnly ==
    pc # "tree" =>
        \A k \in 1..Len(tree) :
            IsYaml(tree[k].path) =>
                (Loaded(tree[k]) <=>
                    ~\E j \in 1..Len(tree[k].path) : tree[k].path[j] \in ExcludedNames)


\* ------------------------------------------------------------------------
\* verify_pr_author.py
\* ------------------------------------------------------------------------
\* A string is the sequence of its tokens; "/" is a token of its own and the
\* other tokens are pieces of a name.

\* Largest number of tokens of FORK_REPO.
MaxRefLen == 4

\* os.environ.get(name) of a variable that is not set (None)
Unset == <<Missing>>

\* rbac-analyzer.py is not running
AnalyzerIdle ==
    /\ base_path = <<>>
    /\ tree = <<>>
    /\ fail_on = Missing
    /\ include_attack_scenarios = FALSE
    /\ pc = "idle"
    /\ loads = 0
    /\ cluster_roles = <<>>
    /\ roles = <<>>
    /\ cluster_role_bindings = <<>>
    /\ role_bindings = <<>>
    /\ service_accounts = <<>>
    /\ pods = <<>>
    /\ findings = <<>>
    /\ stdout = <<>>
    /\ stderr = <<>>
    /\ exit_code = -1

\* str.split('/')
RECURSIVE SplitSlash(_)
SplitSlash(s) ==
    IF \A i \in 1..Len(s) : s[i] # "/"
    THEN <<s>>
    ELSE LET i == CHOOSE k \in 1..Len(s) :
                      s[k] = "/" /\ \A j \in 1..(k - 1) : s[j] # "/"
         IN  <<SubSeq(s, 1, i - 1)>> \o SplitSlash(SubSeq(s, i + 1, Len(s)))

\* xs[-2:]
LastTwo(xs) == SubSeq(xs, IF Len(xs) > 2 THEN Len(xs) - 1 ELSE 1, Len(xs))

\* the organisation is taken from the last segment
ParseOrgLast(repo_ref) ==
    IF repo_ref = Unset
    THEN [raises |-> TRUE, org_name |-> <<>>, repo_name |-> <<>>]
    ELSE LET parsed_names == LastTwo(SplitSlash(repo_ref))
         IN  IF Len(parsed_names) < 2
             THEN [raises |-> TRUE, org_name |-> <<>>, repo_name |-> <<>>]
             ELSE [raises |-> FALSE,
                   org_name |-> parsed_names[2],
                   repo_name |-> parsed_names[2]]

\* parse_org_and_repo_name: None has no split (AttributeError) and a
\* reference without "/" has no parsed_names[1] (IndexError)
parse_org_and_repo_name(repo_ref) ==
    IF repo_ref = Unset
    THEN [raises |-> TRUE, org_name |-> <<>>, repo_name |-> <<>>]
    ELSE LET parsed_names == LastTwo(SplitSlash(repo_ref))
         IN  IF Len(parsed_names) < 2
             THEN [raises |-> TRUE, org_name |-> <<>>, repo_name |-> <<>>]
             ELSE [raises |-> FALSE,
                   org_name |-> parsed_names[1],
                   repo_name |-> parsed_names[2]]

\* The file OWNERS_ALIASES: its shape and, where the shape has one, the list
\* under aliases.platform.
OwnersFile(shape, platform) == [shape |-> shape, platform |-> platform]

\* owners_data.get('aliases', {}).get('platform', []) on the opened file:
\* what is raised, or the value
PlatformOwners(file) ==
    CASE file.shape = "absent"        -> [raises |-> "FileNotFoundError", value |-> <<>>]
      [] file.shape = "unparseable"   -> [raises |-> "YAMLError", value |-> <<>>]
      [] file.shape = "null"          -> [raises |-> "AttributeError", value |-> <<>>]
      [] file.shape = "no-aliases"    -> [raises |-> Missing, value |-> <<>>]
      [] file.shape = "aliases-null"  -> [raises |-> "AttributeError", value |-> <<>>]
      [] file.shape = "no-platform"   -> [raises |-> Missing, value |-> <<>>]
      [] file.shape = "platform-null" -> [raises |-> "TypeError", value |-> <<>>]
      [] OTHER                        -> [raises |-> Missing, value |-> file.platform]

\* what verify_pr_author prints and the status the process ends with
VerifyResult(pr_author, fork_repo, file) ==
    LET parsed == parse_org_and_repo_name(fork_repo)
        owners == PlatformOwners(file)
    IN  CASE parsed.raises ->
                 [out |-> <<>>, status |-> 1]
          [] owners.raises = "FileNotFoundError" ->
                 [out |-> <<"OWNERS_ALIASES file not found. Aborting.">>,
                  status |-> 1]
          [] owners.raises # Missing ->
                 [out |-> <<"Error occurred while parsing OWNERS_ALIASES file">>,
                  status |-> 1]
          [] parsed.org_name \notin Range(owners.value) ->
                 [out |-> <<"Fork owner not found in OWNERS_ALIASES file. Aborting.">>,
                  status |-> 1]
          [] pr_author \in Range(owners.value) ->
                 [out |-> <<"PR author found in OWNERS_ALIASES file. Proceeding.">>,
                  status |-> 0]
          [] OTHER ->
                 [out |-> <<"PR author not found in the OWNERS_ALIASES file. Aborting.">>,
                  status |-> 1]

verify_pr_author ==
    /\ verify_pc = "start"
    /\ LET result == VerifyResult(PR_AUTHOR, FORK_REPO, OWNERS_ALIASES)
       IN  /\ verify_out' = result.out
           /\ verify_status' = result.status
    /\ verify_pc' = "exited"
    /\ UNCHANGED <<PR_AUTHOR, FORK_REPO, OWNERS_ALIASES>>
    /\ UNCHANGED <<workspace_vars, ack_vars, gen_vars, analyzer_vars>>

AliceLogin == <<"alice">>
BobLogin == <<"bob", "by">>
MalloryLogin == <<"mallory">>

NameTokens == {"alice", "bob", "by", "mallory", "repo"}

\* the strings of at most n tokens
RefsUpTo(n) ==
    UNION { [1..k -> NameTokens \cup {"/"}] : k \in 0..n }

OwnersFiles ==
    { OwnersFile(shape, <<>>) :
        shape \in {"absent", "unparseable", "null", "no-aliases",
                   "aliases-null", "no-platform", "platform-null"} }
    \cup { OwnersFile("list", platform) :
             platform \in {<<>>, <<AliceLogin>>, <<AliceLogin, BobLogin>>, <<BobLogin, MalloryLogin>>} }

InitAuthor ==
    /\ AnalyzerIdle
    /\ ScanIdle
    /\ PR_AUTHOR \in {Unset, <<>>, AliceLogin, BobLogin, MalloryLogin}
    /\ FORK_REPO \in {Unset} \cup RefsUpTo(MaxRefLen)
    /\ OWNERS_ALIASES \in OwnersFiles
    /\ verify_pc = "start"
    /\ verify_out = <<>>
    /\ verify_status = -1

NextAuthor ==
    verify_pr_author

SpecAuthor == InitAuthor /\ [][NextAuthor]_vars

\* ------------------------------------------------------------------------
\* Properties of verify_pr_author.py (SpecAuthor)
\* ------------------------------------------------------------------------
\* the names listed under aliases.platform of a readable OWNERS_ALIASES
ListedOwners ==
    IF OWNERS_ALIASES.shape = "list" THEN Range(OWNERS_ALIASES.platform) ELSE {}

\* the positions of the "/" tokens of a string
Slashes(s) == {i \in 1..Len(s) : s[i] = "/"}

\* the second-to-last '/'-separated component of FORK_REPO is listed
ForkOrgListed ==
    /\ FORK_REPO # Unset
    /\ Slashes(FORK_REPO) # {}
    /\ LET last == CHOOSE i \in Slashes(FORK_REPO) :
                       \A j \in Slashes(FORK_REPO) : j <= i
           before == {j \in Slashes(FORK_REPO) : j < last}
           from == IF before = {} THEN 1
                   ELSE 1 + CHOOSE i \in before : \A j \in before : j <= i
       IN  SubSeq(FORK_REPO, from, last - 1) \in ListedOwners

Tools ==
    <<"gitleaks", "trufflehog", "semgrep", "shellcheck", "hadolint",
      "yamllint", "actionlint", "kube-linter", "rbac-analyzer">>

\* a file name that is not there (None)
NoFileName == <<Missing>>

GetFile(v, default) == IF v = NoFileName THEN default ELSE v

\* str(value)
PyStr(v) == IF v = Missing THEN "None" ELSE v

\* normalize_line of _findings_match
normalize_line(v) == IF v = Missing THEN Missing ELSE PyStr(v)

\* file_path.startswith('/repo/') and file_path[6:]
StripRepo(p) ==
    IF Len(p) >= 3 /\ p[1] = "" /\ p[2] = "repo" THEN SubSeq(p, 3, Len(p)) ELSE p

IsAbs(p) == Len(p) >= 2 /\ p[1] = ""

RECURSIVE NormComps(_, _, _)
NormComps(comps, new, abs) ==
    IF comps = <<>> THEN new
    ELSE LET comp == Head(comps)
         IN  IF comp \in {"", "."}
             THEN NormComps(Tail(comps), new, abs)
             ELSE IF \/ comp # ".."
                     \/ (~abs /\ new = <<>>)
                     \/ (new # <<>> /\ new[Len(new)] = "..")
             THEN NormComps(Tail(comps), Append(new, comp), abs)
             ELSE IF new # <<>>
             THEN NormComps(Tail(comps), SubSeq(new, 1, Len(new) - 1), abs)
             ELSE NormComps(Tail(comps), new, abs)

\* os.path.normpath
NormPath(p) ==
    LET new == NormComps(p, <<>>, IsAbs(p))
    IN  IF IsAbs(p)
        THEN (IF new = <<>> THEN <<"", "">> ELSE <<"">> \o new)
        ELSE (IF new = <<>> THEN <<".">> ELSE new)

\* str.lstrip('/')
RECURSIVE LStripSlash(_)
LStripSlash(p) ==
    IF Len(p) >= 2 /\ p[1] = "" THEN LStripSlash(Tail(p)) ELSE p

\* while file_path.startswith('../') or file_path.startswith('./')
RECURSIVE StripTraversal(_)
StripTraversal(p) ==
    IF Len(p) >= 2 /\ p[1] \in {"..", "."} THEN StripTraversal(Tail(p)) ELSE p

\* hashlib.sha256(description.encode()).hexdigest()[:8] of the descriptions
\* that occur in this model
LongDescription ==
    "Secret detected; see Gitleaks JSON artifact for details (value redacted)"

Sha256Hex8(description) ==
    CASE description = "AWS access key"  -> "3e3a8379"
      [] description = "Generic API key" -> "7c4dc051"
      [] description = "Secret detected" -> "80c1757d"
      [] description = LongDescription   -> "032a50d7"
      [] description = ""                -> "e3b0c442"

\* The keys of a finding or a baseline entry. A key that is not in the dict,
\* or holds None, reads as Missing (NoFileName for "file"), which is what
\* dict.get returns for it.
FieldNames ==
    {"file", "line", "rule", "description_hash", "description", "check",
     "object_kind", "object_name", "object_namespace", "message", "code",
     "level", "detector", "verified", "raw", "column", "rule_id", "severity",
     "title", "issue", "fix", "reason", "acknowledged_by",
     "acknowledged_date", "tool"}

NoFields == [k \in FieldNames |-> IF k = "file" THEN NoFileName ELSE Missing]

Fields(r) == r @@ NoFields

\* value or None
OrNone(v) == IF v = "" THEN Missing ELSE v

\* bool(value)
Truthy(v) == v \notin {Missing, "", "False", "0"}

\* ------------------------------------------------------------------------
\* acknowledge-findings.py: parsers and matcher
\* ------------------------------------------------------------------------
\* what parse_<tool> appends for one record of the tool's output; the object
\* of a kube-linter finding is held as object_kind, object_name and
\* object_namespace
AckFinding(tool, item) ==
    CASE tool = "gitleaks" ->
            LET description == Get(item.Description, "Secret detected")
            IN  Fields([file |-> LStripSlash(NormPath(StripRepo(
                                     GetFile(item.File, <<"unknown">>)))),
                        line |-> Get(item.StartLine, "?"),
                        rule |-> Get(item.RuleID, "unknown"),
                        description_hash |-> Sha256Hex8(description),
                        description |-> description])
      [] tool = "kube-linter" ->
            Fields([check |-> Get(item.Check, "unknown"),
                    object_kind |-> Get(item.Kind, "unknown"),
                    object_name |-> Get(item.Name, "unknown"),
                    object_namespace |-> OrNone(item.Namespace),
                    message |-> Get(item.Message, "")])
      [] tool = "shellcheck" ->
            Fields([file |-> GetFile(item.file, <<"">>),
                    line |-> Get(item.line, "0"),
                    code |-> Get(item.code, "0"),
                    message |-> Get(item.message, ""),
                    level |-> Get(item.level, "warning")])
      [] tool = "trufflehog" ->
            Fields([detector |-> Get(item.DetectorName, ""),
                    file |-> GetFile(item.file, <<"">>),
                    line |-> Get(item.line, "0"),
                    verified |-> Get(item.Verified, "False"),
                    raw |-> "[REDACTED]"])
      [] tool = "yamllint" ->
            Fields([file |-> item.file,
                    line |-> item.line,
                    column |-> item.column,
                    level |-> item.level,
                    message |-> item.message,
                    rule |-> item.rule])
      [] tool = "actionlint" ->
            Fields([file |-> item.file,
                    line |-> item.line,
                    column |-> item.column,
                    message |-> item.message,
                    rule |-> item.rule])
      [] tool \in {"semgrep", "hadolint"} ->
            Fields([rule_id |-> Get(item.ruleId, ""),
                    file |-> GetFile(item.uri, <<"">>),
                    line |-> Get(item.startLine, "0"),
                    message |-> Get(item.text, ""),
                    level |-> Get(item.level, "warning")])
      [] tool = "rbac-analyzer" ->
            Fields([severity |-> item.severity,
                    title |-> item.title,
                    file |-> item.file,
                    issue |-> item.issue,
                    fix |-> item.fix])

\* whether the parser appends a finding for the record: _parse_sarif skips a
\* result without locations
AckParses(tool, item) ==
    tool \in {"semgrep", "hadolint"} => item.locations

\* parse_gitleaks, parse_kube_linter, ..., parse_rbac_analyzer
AckParse(tool, data) ==
    LET parsed == SelectSeq(data, LAMBDA item : AckParses(tool, item))
    IN  [i \in 1..Len(parsed) |-> AckFinding(tool, parsed[i])]

\* the matcher compares every field a finding has
FindingsMatchAllFields(tool, finding, baseline_entry) ==
    finding = baseline_entry

\* _findings_match
findings_match(tool, finding, baseline_entry) ==
    CASE tool = "gitleaks" ->
            /\ finding.file = baseline_entry.file
            /\ normalize_line(finding.line) = normalize_line(baseline_entry.line)
            /\ finding.rule = baseline_entry.rule
            /\ finding.description_hash = baseline_entry.description_hash
      [] tool = "kube-linter" ->
            /\ finding.check = baseline_entry.check
            /\ finding.object_kind = baseline_entry.object_kind
            /\ finding.object_name = baseline_entry.object_name
            /\ finding.object_namespace = baseline_entry.object_namespace
      [] tool = "shellcheck" ->
            /\ finding.file = baseline_entry.file
            /\ normalize_line(finding.line) = normalize_line(baseline_entry.line)
            /\ finding.code = baseline_entry.code
      [] tool = "trufflehog" ->
            /\ finding.detector = baseline_entry.detector
            /\ finding.file = baseline_entry.file
            /\ normalize_line(finding.line) = normalize_line(baseline_entry.line)
      [] tool = "yamllint" ->
            /\ finding.file = baseline_entry.file
            /\ normalize_line(finding.line) = normalize_line(baseline_entry.line)
            /\ finding.rule = baseline_entry.rule
      [] tool = "actionlint" ->
            /\ finding.file = baseline_entry.file
            /\ normalize_line(finding.line) = normalize_line(baseline_entry.line)
            /\ finding.message = baseline_entry.message
      [] tool \in {"semgrep", "hadolint"} ->
            /\ finding.rule_id = baseline_entry.rule_id
            /\ finding.file = baseline_entry.file
            /\ normalize_line(finding.line) = normalize_line(baseline_entry.line)
      [] tool = "rbac-analyzer" ->
            /\ finding.title = baseline_entry.title
            /\ finding.file = baseline_entry.file
      [] OTHER -> FALSE

\* filter_new_findings
filter_new_findings(baseline_findings, tool, all_findings) ==
    SelectSeq(all_findings,
              LAMBDA finding :
                  ~\E k \in 1..Len(baseline_findings) :
                      findings_match(tool, finding, baseline_findings[k]))

\* interactive_acknowledge: the metadata added to a finding and the
\* temporary fields removed from it
Acknowledge(tool, finding, text, acknowledged_by) ==
    LET with_metadata == [finding EXCEPT !.reason = text,
                                         !.acknowledged_by = acknowledged_by,
                                         !.acknowledged_date = "2026-01-01"]
    IN  CASE tool = "gitleaks" ->
                [with_metadata EXCEPT !.description = Missing]
          [] tool = "kube-linter" ->
                [with_metadata EXCEPT !.message = Missing]
          [] tool = "trufflehog" ->
                [with_metadata EXCEPT !.raw = Missing]
          [] tool = "rbac-analyzer" ->
                [with_metadata EXCEPT !.issue = Missing, !.fix = Missing]
          [] OTHER -> with_metadata

\* ------------------------------------------------------------------------
\* generate-security-report.py: parsers and matcher
\* ------------------------------------------------------------------------
\* the order in which generate_report calls the parsers
ParseOrder ==
    <<"gitleaks", "trufflehog", "semgrep", "hadolint", "shellcheck",
      "yamllint", "actionlint", "kube-linter", "rbac-analyzer">>

Buckets == {"critical", "high", "medium", "low", "info"}

critical_checks ==
    {"cluster-admin-role-binding", "privileged-container", "host-network",
     "host-pid", "host-ipc", "docker-sock", "access-to-create-pods",
     "privilege-escalation-container", "run-as-non-root",
     "no-read-only-root-fs", "privileged-ports"}

high_checks ==
    {"access-to-secrets", "wildcard-in-rules", "sensitive-host-mounts",
     "writable-host-mount", "unsafe-proc-mount", "unsafe-sysctls",
     "default-service-account", "env-var-secret", "read-secret-from-env-var",
     "drop-net-raw-capability", "exposed-services", "non-isolated-pod",
     "ssh-port", "latest-tag", "no-system-group-binding"}

medium_checks ==
    {"no-liveness-probe", "no-readiness-probe", "unset-cpu-requirements",
     "unset-memory-requirements", "use-namespace",
     "non-existent-service-account"}

\* any(keyword in message.lower() for keyword in ['permission', 'token',
\* 'secret', 'credential']) on the messages that occur in this model
MentionsCredentials(message) ==
    message \in {"permissions are too broad", "secret is not defined"}

\* f"{kind}/{namespace}/{name}" or f"{kind}/{name}"
ObjectId(item) ==
    LET namespace == Get(item.Namespace, "")
        name == Get(item.Name, "unknown")
        kind == Get(item.Kind, "unknown")
    IN  IF namespace # "" THEN <<kind, namespace, name>> ELSE <<kind, name>>

\* the severity bucket the parser of the tool files a record under; yamllint
\* findings go to the tool's findings_data only
GenBucket(tool, item) ==
    CASE tool \in {"gitleaks", "trufflehog"} -> "critical"
      [] tool = "semgrep" ->
            LET level == Get(item.level, "note")
            IN  CASE level = "error" -> "high"
                  [] level = "warning" -> "medium"
                  [] OTHER -> "info"
      [] tool = "hadolint" ->
            LET level == Get(item.level, "note")
            IN  CASE level = "error" -> "high"
                  [] level = "warning" -> "medium"
                  [] OTHER -> "low"
      [] tool = "shellcheck" ->
            LET level == Get(item.level, "info")
            IN  CASE level = "error" -> "high"
                  [] level = "warning" -> "medium"
                  [] level = "style" -> "info"
                  [] OTHER -> "low"
      [] tool = "yamllint" -> Missing
      [] tool = "actionlint" ->
            IF MentionsCredentials(item.message) THEN "high" ELSE "medium"
      [] tool = "kube-linter" ->
            LET check_name == Get(item.Check, "unknown")
            IN  CASE check_name \in critical_checks -> "critical"
                  [] check_name \in high_checks -> "high"
                  [] check_name \in medium_checks -> "medium"
                  [] OTHER -> "low"
      [] tool = "rbac-analyzer" ->
            CASE item.severity = "CRITICAL" -> "critical"
              [] item.severity = "HIGH" -> "high"
              [] item.severity = "WARNING" -> "medium"
              [] OTHER -> "info"

\* severity.upper() of a bucket name
BucketUpper(bucket) ==
    CASE bucket = "critical" -> "CRITICAL"
      [] bucket = "high" -> "HIGH"
      [] bucket = "medium" -> "MEDIUM"
      [] bucket = "low" -> "LOW"
      [] bucket = "info" -> "INFO"
      [] OTHER -> Missing

\* finding_dict of the parser of the tool for one record of its output,
\* without the type and remediation texts
GenFinding(tool, item) ==
    CASE tool = "gitleaks" ->
            Fields([tool |-> "Gitleaks",
                    severity |-> "CRITICAL",
                    file |-> StripTraversal(LStripSlash(NormPath(StripRepo(
                                 GetFile(item.File, <<"unknown">>))))),
                    line |-> Get(item.StartLine, "?"),
                    rule |-> Get(item.RuleID, "unknown"),
                    description |-> Get(item.Description, LongDescription)])
      [] tool = "trufflehog" ->
            Fields([tool |-> "TruffleHog",
                    severity |-> "CRITICAL",
                    file |-> StripTraversal(LStripSlash(NormPath(StripRepo(
                                 GetFile(item.file, <<"unknown">>))))),
                    line |-> Get(item.line, "0"),
                    detector |-> Get(item.DetectorName, "unknown"),
                    rule |-> Get(item.DetectorName, "unknown"),
                    description |-> "Verified credential found"])
      [] tool \in {"semgrep", "hadolint"} ->
            Fields([tool |-> IF tool = "semgrep" THEN "Semgrep" ELSE "Hadolint",
                    severity |-> BucketUpper(GenBucket(tool, item)),
                    file |-> IF item.locations
                             THEN GetFile(item.uri, <<"unknown">>)
                             ELSE <<"unknown">>,
                    line |-> IF item.locations
                             THEN Get(item.startLine, "?")
                             ELSE "?",
                    rule |-> Get(item.ruleId, "unknown"),
                    description |-> Get(item.text, "No description")])
      [] tool = "shellcheck" ->
            Fields([tool |-> "ShellCheck",
                    severity |-> BucketUpper(GenBucket(tool, item)),
                    file |-> GetFile(item.file, <<"unknown">>),
                    line |-> Get(item.line, "?"),
                    code |-> item.code,
                    rule |-> item.code,
                    description |-> Get(item.message, "No description")])
      [] tool = "yamllint" ->
            Fields([tool |-> "yamllint",
                    level |-> item.level,
                    file |-> item.file,
                    line |-> item.line,
                    rule |-> item.rule,
                    description |-> item.message])
      [] tool = "actionlint" ->
            Fields([tool |-> "actionlint",
                    severity |-> BucketUpper(GenBucket(tool, item)),
                    file |-> item.file,
                    line |-> item.line,
                    rule |-> Get(item.rule, "workflow-syntax"),
                    description |-> item.message])
      [] tool = "kube-linter" ->
            Fields([tool |-> "kube-linter",
                    severity |-> BucketUpper(GenBucket(tool, item)),
                    file |-> ObjectId(item),
                    line |-> Get(item.Check, "unknown"),
                    rule |-> Get(item.Check, "unknown"),
                    description |-> Get(item.Message, "kube-linter finding"),
                    object_kind |-> Get(item.Kind, "unknown"),
                    object_name |-> Get(item.Name, "unknown"),
                    object_namespace |-> OrNone(Get(item.Namespace, ""))])
      [] tool = "rbac-analyzer" ->
            Fields([tool |-> "RBAC Analyzer",
                    severity |-> item.severity,
                    title |-> item.title,
                    file |-> item.file,
                    line |-> "?",
                    rule |-> item.severity,
                    description |-> item.issue])

\* dedup_key of parse_gitleaks and of parse_kubelinter
DedupKey(tool, item) ==
    CASE tool = "gitleaks" ->
            <<GenFinding(tool, item).file,
              <<PyStr(Get(item.StartLine, "?")),
                Get(item.RuleID, "unknown"),
                Sha256Hex8(Get(item.Description, "Secret detected"))>> >>
      [] tool = "kube-linter" ->
            <<ObjectId(item),
              <<Get(item.Check, "unknown"),
                Get(item.Message, "kube-linter finding")>> >>

\* the records a parser looks at: parse_gitleaks and parse_kubelinter pass
\* over a record whose dedup_key was seen before
RECURSIVE Unseen(_, _, _)
Unseen(tool, data, seen) ==
    IF data = <<>> THEN <<>>
    ELSE IF tool \notin {"gitleaks", "kube-linter"}
    THEN data
    ELSE IF DedupKey(tool, Head(data)) \in seen
    THEN Unseen(tool, Tail(data), seen)
    ELSE <<Head(data)>>
         \o Unseen(tool, Tail(data), seen \cup {DedupKey(tool, Head(data))})

\* the match is on the title alone
IsAcknowledgedByTitle(lists, tool, finding) ==
    \E k \in 1..Len(lists[tool]) :
        LET baseline_entry == lists[tool][k]
        IN  CASE tool = "rbac-analyzer" ->
                    finding.title = baseline_entry.title
              [] OTHER -> FALSE

\* _is_acknowledged
is_acknowledged(lists, tool, finding) ==
    \E k \in 1..Len(lists[tool]) :
        LET baseline_entry == lists[tool][k]
        IN  CASE tool = "gitleaks" ->
                    /\ finding.file = baseline_entry.file
                    /\ PyStr(finding.line) = PyStr(baseline_entry.line)
                    /\ finding.rule = baseline_entry.rule
                    /\ Sha256Hex8(Get(finding.description, ""))
                           = baseline_entry.description_hash
              [] tool = "trufflehog" ->
                    /\ finding.detector = baseline_entry.detector
                    /\ finding.file = baseline_entry.file
                    /\ PyStr(finding.line) = PyStr(baseline_entry.line)
              [] tool \in {"semgrep", "hadolint"} ->
                    /\ finding.rule = baseline_entry.rule_id
                    /\ finding.file = baseline_entry.file
                    /\ PyStr(finding.line) = PyStr(baseline_entry.line)
              [] tool = "shellcheck" ->
                    /\ finding.file = baseline_entry.file
                    /\ PyStr(finding.line) = PyStr(baseline_entry.line)
                    /\ finding.code = baseline_entry.code
              [] tool = "yamllint" ->
                    /\ finding.file = baseline_entry.file
                    /\ PyStr(finding.line) = PyStr(baseline_entry.line)
                    /\ finding.rule = baseline_entry.rule
              [] tool = "actionlint" ->
                    /\ finding.file = baseline_entry.file
                    /\ PyStr(finding.line) = PyStr(baseline_entry.line)
                    /\ finding.description = baseline_entry.message
              [] tool = "kube-linter" ->
                    /\ finding.rule = baseline_entry.check
                    /\ finding.object_kind = baseline_entry.object_kind
                    /\ finding.object_name = baseline_entry.object_name
                    /\ finding.object_namespace = baseline_entry.object_namespace
              [] tool = "rbac-analyzer" ->
                    /\ finding.title = baseline_entry.title
                    /\ finding.file = baseline_entry.file
              [] OTHER -> FALSE

\* the findings a parser reports: those of the records it looks at that the
\* baseline does not acknowledge
Reported(lists, tool, data) ==
    LET unseen == Unseen(tool, data, {})
        unacknowledged ==
            SelectSeq(unseen,
                      LAMBDA item :
                          ~is_acknowledged(lists, tool, GenFinding(tool, item)))
    IN  [i \in 1..Len(unacknowledged) |->
            [bucket |-> GenBucket(tool, unacknowledged[i]),
             finding |-> GenFinding(tool, unacknowledged[i])]]

\* the number of records a parser adds to baseline_counts[tool]
Suppressed(lists, tool, data) ==
    Len(Unseen(tool, data, {})) - Len(Reported(lists, tool, data))

\* ------------------------------------------------------------------------
\* acknowledge-findings.py: run_interactive, one step per answered prompt
\* ------------------------------------------------------------------------
ToolSet == Range(Tools)

\* the new baseline structure of load_baseline
NewBaseline == [tool \in ToolSet |-> <<>>]

NoOutput == [exists |-> FALSE, data |-> <<>>]

Output(data) == [exists |-> TRUE, data |-> data]

\* .github/config/security-baseline.yaml: absent, not parseable as YAML,
\* empty (null), a list, or a dict whose value under a tool is a list (a
\* tool without a key in the dict reads as the empty list)
BaselineFile(shape, data) == [shape |-> shape, data |-> data]

NoBaselineFile == BaselineFile("absent", NewBaseline)

\* detect_available_findings
Available == SelectSeq(Tools, LAMBDA tool : tool_output[tool].exists)

\* a verified TruffleHog finding is acknowledged like any other
BlockedNever(tool, finding) ==
    FALSE

\* the test that blocks a verified TruffleHog secret
Blocked(tool, finding) ==
    tool = "trufflehog" /\ Truthy(finding.verified)

\* the end of the process with the status passed to sys.exit
AckExit(status) ==
    /\ ack_pc' = "exited"
    /\ ack_status' = status

\* run_interactive up to the loop over the tools
AckStart ==
    /\ ack_pc = "start"
    /\ IF Available = <<>>
       THEN /\ AckExit(1)
            /\ UNCHANGED <<baseline_data, tools_to_process>>
       ELSE IF baseline_file.shape = "unparseable"
       THEN /\ AckExit(1)
            /\ UNCHANGED <<baseline_data, tools_to_process>>
       ELSE /\ baseline_data' = IF baseline_file.shape = "dict"
                                THEN baseline_file.data
                                ELSE NewBaseline
            /\ IF tool_filter # Missing /\ tool_filter \notin Range(Available)
               THEN /\ AckExit(1)
                    /\ UNCHANGED tools_to_process
               ELSE /\ tools_to_process' = IF tool_filter # Missing
                                           THEN <<tool_filter>>
                                           ELSE Available
                    /\ ack_pc' = "tool"
                    /\ UNCHANGED ack_status
    /\ UNCHANGED <<tool_filter, new_findings, indices, index_pos, acknowledged,
                   reason, total_acknowledged>>
    /\ UNCHANGED <<workspace_vars, gen_vars, verify_vars, analyzer_vars>>

\* the next tool of the loop: parse, filter_new_findings and the listing of
\* interactive_acknowledge, which returns at once when nothing is new
AckParseTool ==
    /\ ack_pc = "tool"
    /\ tools_to_process # <<>>
    /\ LET tool == Head(tools_to_process)
           all_findings == AckParse(tool, tool_output[tool].data)
           new == filter_new_findings(baseline_data[tool], tool, all_findings)
       IN  /\ new_findings' = new
           /\ IF new = <<>>
              THEN /\ tools_to_process' = Tail(tools_to_process)
                   /\ UNCHANGED ack_pc
              ELSE /\ ack_pc' = "select"
                   /\ UNCHANGED tools_to_process
    /\ indices' = <<>>
    /\ index_pos' = 0
    /\ acknowledged' = <<>>
    /\ UNCHANGED <<tool_filter, baseline_data, reason, total_acknowledged,
                   ack_status>>
    /\ UNCHANGED <<workspace_vars, gen_vars, verify_vars, analyzer_vars>>

\* sorted(set(...)) of the numbers typed
RECURSIVE Sorted(_)
Sorted(S) ==
    IF S = {} THEN <<>>
    ELSE LET least == CHOOSE x \in S : \A y \in S : x <= y
         IN  <<least>> \o Sorted(S \ {least})

\* the answer to the selection prompt that ends its loop: 'skip' or numbers
\* between 1 and len(findings)
AckSelect ==
    /\ ack_pc = "select"
    /\ \/ /\ tools_to_process' = Tail(tools_to_process)
          /\ ack_pc' = "tool"
          /\ UNCHANGED indices
       \/ \E selection \in (SUBSET (1..Len(new_findings))) \ {{}} :
              /\ indices' = Sorted(selection)
              /\ ack_pc' = "next"
              /\ UNCHANGED tools_to_process
    /\ UNCHANGED <<tool_filter, baseline_data, new_findings, index_pos,
                   acknowledged, reason, total_acknowledged, ack_status>>
    /\ UNCHANGED <<workspace_vars, gen_vars, verify_vars, analyzer_vars>>

\* the head of the loop over the selected findings: a blocked finding is
\* passed over, any other is asked a reason for
AckNextIndex ==
    /\ ack_pc = "next"
    /\ index_pos < Len(indices)
    /\ IF Blocked(Head(tools_to_process), new_findings[indices[index_pos + 1]])
       THEN /\ index_pos' = index_pos + 1
            /\ UNCHANGED ack_pc
       ELSE /\ ack_pc' = "reason"
            /\ UNCHANGED index_pos
    /\ UNCHANGED <<tool_filter, baseline_data, tools_to_process, new_findings,
                   indices, acknowledged, reason, total_acknowledged,
                   ack_status>>
    /\ UNCHANGED <<workspace_vars, gen_vars, verify_vars, analyzer_vars>>

\* the reasons a user types; the prompt repeats until one has 10 characters
Reasons == {"test fixture, not a secret"}

\* the answer to the reason prompt that ends its loop
AckReason ==
    /\ ack_pc = "reason"
    /\ \E text \in Reasons : reason' = text
    /\ ack_pc' = "by"
    /\ UNCHANGED <<tool_filter, baseline_data, tools_to_process, new_findings,
                   indices, index_pos, acknowledged, total_acknowledged,
                   ack_status>>
    /\ UNCHANGED <<workspace_vars, gen_vars, verify_vars, analyzer_vars>>

\* self.team
Team == "platform-team"

\* the answer to the acknowledged_by prompt, and the rest of the loop body
AckBy ==
    /\ ack_pc = "by"
    /\ \E typed \in {"", "alice"} :
           LET acknowledged_by == IF typed = "" THEN Team ELSE typed
               finding == new_findings[indices[index_pos + 1]]
           IN  acknowledged' =
                   Append(acknowledged,
                          Acknowledge(Head(tools_to_process), finding, reason,
                                      acknowledged_by))
    /\ index_pos' = index_pos + 1
    /\ ack_pc' = "next"
    /\ UNCHANGED <<tool_filter, baseline_data, tools_to_process, new_findings,
                   indices, reason, total_acknowledged, ack_status>>
    /\ UNCHANGED <<workspace_vars, gen_vars, verify_vars, analyzer_vars>>

\* update_baseline
update_baseline(data, tool, new_acknowledgments) ==
    [data EXCEPT ![tool] = @ \o new_acknowledgments]

\* the baseline is saved each time a tool's acknowledgements are added
AckReturnSaving ==
    /\ ack_pc = "next"
    /\ index_pos = Len(indices)
    /\ IF acknowledged # <<>>
       THEN /\ baseline_data' = update_baseline(baseline_data,
                                                Head(tools_to_process),
                                                acknowledged)
            /\ total_acknowledged' = total_acknowledged + Len(acknowledged)
            /\ baseline_file' = BaselineFile("dict", baseline_data')
            /\ baseline_writes' = baseline_writes + 1
       ELSE UNCHANGED <<baseline_data, total_acknowledged, baseline_file,
                        baseline_writes>>
    /\ tools_to_process' = Tail(tools_to_process)
    /\ ack_pc' = "tool"
    /\ UNCHANGED <<tool_filter, new_findings, indices, index_pos, acknowledged,
                   reason, ack_status>>
    /\ UNCHANGED <<tool_output, gen_vars, verify_vars, analyzer_vars>>

\* the return of interactive_acknowledge and the update of the baseline in
\* memory
AckReturn ==
    /\ ack_pc = "next"
    /\ index_pos = Len(indices)
    /\ IF acknowledged # <<>>
       THEN /\ baseline_data' = update_baseline(baseline_data,
                                                Head(tools_to_process),
                                                acknowledged)
            /\ total_acknowledged' = total_acknowledged + Len(acknowledged)
       ELSE UNCHANGED <<baseline_data, total_acknowledged>>
    /\ tools_to_process' = Tail(tools_to_process)
    /\ ack_pc' = "tool"
    /\ UNCHANGED <<tool_filter, new_findings, indices, index_pos, acknowledged,
                   reason, ack_status>>
    /\ UNCHANGED <<workspace_vars, gen_vars, verify_vars, analyzer_vars>>

\* the end of run_interactive: save_baseline if anything was acknowledged
AckFinish ==
    /\ ack_pc = "tool"
    /\ tools_to_process = <<>>
    /\ IF total_acknowledged > 0
       THEN /\ baseline_file' = BaselineFile("dict", baseline_data)
            /\ baseline_writes' = baseline_writes + 1
       ELSE UNCHANGED <<baseline_file, baseline_writes>>
    /\ AckExit(0)
    /\ UNCHANGED <<tool_filter, baseline_data, tools_to_process, new_findings,
                   indices, index_pos, acknowledged, reason,
                   total_acknowledged>>
    /\ UNCHANGED <<tool_output, gen_vars, verify_vars, analyzer_vars>>

\* Ctrl-C at a prompt: main catches KeyboardInterrupt and exits with 130
AckInterrupt ==
    /\ ack_pc \in {"select", "reason", "by"}
    /\ AckExit(130)
    /\ UNCHANGED <<tool_filter, baseline_data, tools_to_process, new_findings,
                   indices, index_pos, acknowledged, reason,
                   total_acknowledged>>
    /\ UNCHANGED <<workspace_vars, gen_vars, verify_vars, analyzer_vars>>

NextAck ==
    \/ AckStart
    \/ AckParseTool
    \/ AckSelect
    \/ AckNextIndex
    \/ AckReason
    \/ AckBy
    \/ AckReturn
    \/ AckFinish
    \/ AckInterrupt

\* ------------------------------------------------------------------------
\* generate-security-report.py: generate_report
\* ------------------------------------------------------------------------
NoStats == [findings |-> 0, status |-> "SKIPPED", findings_data |-> <<>>]

\* the findings of one bucket among those a parser reports
InBucket(reported, bucket) ==
    LET filed == SelectSeq(reported, LAMBDA r : r.bucket = bucket)
    IN  [i \in 1..Len(filed) |-> filed[i].finding]

\* load_baseline: the counts are reset, and the lists of a baseline that is
\* a dict are stored; the generator runs when no acknowledger does
GenLoadBaseline ==
    /\ gen_pc = "start"
    /\ ack_pc \in {"idle", "exited"}
    /\ baseline_counts' = [tool \in ToolSet |-> 0]
    /\ baseline' = IF baseline_file.shape = "dict"
                   THEN baseline_file.data
                   ELSE baseline
    /\ gen_pc' = "parse"
    /\ parsers_called' = 0
    /\ UNCHANGED <<report_findings, tool_stats, posture>>
    /\ UNCHANGED <<workspace_vars, ack_vars, verify_vars, analyzer_vars>>

\* the next parse_<tool> call of generate_report
GenParse ==
    /\ gen_pc = "parse"
    /\ parsers_called < Len(ParseOrder)
    /\ LET tool == ParseOrder[parsers_called + 1]
           data == tool_output[tool].data
           reported == Reported(baseline, tool, data)
       IN  IF ~tool_output[tool].exists
           THEN /\ tool_stats' = [tool_stats EXCEPT ![tool] = NoStats]
                /\ UNCHANGED <<report_findings, baseline_counts>>
           ELSE /\ report_findings' =
                       [bucket \in Buckets |->
                           report_findings[bucket] \o InBucket(reported, bucket)]
                /\ baseline_counts' =
                       [baseline_counts EXCEPT
                           ![tool] = @ + Suppressed(baseline, tool, data)]
                /\ tool_stats' =
                       [tool_stats EXCEPT
                           ![tool] =
                               [findings |-> Len(reported),
                                status |-> IF Len(reported) > 0
                                           THEN "FINDINGS" ELSE "PASS",
                                findings_data |->
                                    IF tool \in {"yamllint", "actionlint"}
                                    THEN [i \in 1..Len(reported) |->
                                             reported[i].finding]
                                    ELSE <<>>]]
    /\ parsers_called' = parsers_called + 1
    /\ UNCHANGED <<gen_pc, baseline, posture>>
    /\ UNCHANGED <<workspace_vars, ack_vars, verify_vars, analyzer_vars>>

\* the overall security posture of generate_report
GenPosture ==
    /\ gen_pc = "parse"
    /\ parsers_called = Len(ParseOrder)
    /\ posture' = CASE report_findings["critical"] # <<>> -> "CRITICAL"
                    [] report_findings["high"] # <<>> -> "HIGH"
                    [] report_findings["medium"] # <<>> -> "MEDIUM"
                    [] report_findings["low"] # <<>> -> "LOW"
                    [] OTHER -> "CLEAN"
    /\ gen_pc' = "done"
    /\ UNCHANGED <<baseline, baseline_counts, report_findings, tool_stats,
                   parsers_called>>
    /\ UNCHANGED <<workspace_vars, ack_vars, verify_vars, analyzer_vars>>

NextReport ==
    \/ GenLoadBaseline
    \/ GenParse
    \/ GenPosture

\* ------------------------------------------------------------------------
\* The workspaces the two scripts are run in
\* ------------------------------------------------------------------------
\* Largest number of tools with an output file in one workspace.
MaxOutputs == 2

GoFile == <<"src", "a.go">>

Leak(file, description) ==
    [File |-> file, StartLine |-> "7", RuleID |-> "aws-access-key",
     Description |-> description]

Credential(detector, file, verified) ==
    [DetectorName |-> detector, file |-> file, line |-> "3",
     Verified |-> verified, Raw |-> "AKIA"]

SarifResult(ruleId, level, locations) ==
    [ruleId |-> ruleId, level |-> level, text |-> "use of exec",
     locations |-> locations,
     uri |-> IF locations THEN GoFile ELSE NoFileName,
     startLine |-> IF locations THEN "12" ELSE Missing]

Comment(line, code, level) ==
    [file |-> <<"hack", "run.sh">>, line |-> line, code |-> code,
     message |-> "Double quote to prevent globbing", level |-> level]

YamlLine(file, line, rule) ==
    [file |-> file, line |-> line, column |-> "5", level |-> "error",
     message |-> "line too long", rule |-> rule]

WorkflowLine(line, message, rule) ==
    [file |-> <<".github", "workflows", "ci.yml">>, line |-> line,
     column |-> "9", message |-> message, rule |-> rule]

LintReport(check, name, namespace) ==
    [Check |-> check, Kind |-> "Deployment", Name |-> name,
     Namespace |-> namespace, Message |-> "container is privileged"]

RbacFinding(severity, title, file, issue) ==
    [severity |-> severity, title |-> title, file |-> file, issue |-> issue,
     fix |-> "Restrict the rule"]

RoleFile == <<"config", "rbac", "role.yaml">>

WildcardTitle == "ClusterRole manager grants wildcard permissions"

\* the output files a tool may have left in the workspace
Outputs(tool) ==
    CASE tool = "gitleaks" ->
            { <<Leak(<<"", "repo", "src", "a.go">>, "AWS access key"),
                Leak(GoFile, "AWS access key")>>,
              <<Leak(GoFile, Missing), Leak(GoFile, "Generic API key")>>,
              <<Leak(<<"..", "src", "a.go">>, "AWS access key")>> }
      [] tool = "trufflehog" ->
            { <<Credential("AWS", GoFile, "True"),
                Credential("Github", GoFile, "False")>>,
              <<Credential("Github", <<"", "repo", "src", "a.go">>, "False"),
                Credential("AWS", GoFile, "True")>> }
      [] tool = "semgrep" ->
            { <<SarifResult("go.exec", "error", TRUE),
                SarifResult("go.tls", "warning", TRUE)>>,
              <<SarifResult("go.exec", Missing, FALSE)>> }
      [] tool = "hadolint" ->
            { <<SarifResult("DL3008", "warning", TRUE),
                SarifResult("DL3003", "note", TRUE)>> }
      [] tool = "shellcheck" ->
            { <<Comment("4", "2086", "info"), Comment("9", "2086", "error")>> }
      [] tool = "yamllint" ->
            { <<YamlLine(<<".", "config", "a.yaml">>, "10", "line-length"),
                YamlLine(<<".", "config", "a.yaml">>, "10", "indentation")>> }
      [] tool = "actionlint" ->
            { <<WorkflowLine("21", "secret is not defined", "expression"),
                WorkflowLine("21", "unexpected key", Missing)>> }
      [] tool = "kube-linter" ->
            { <<LintReport("privileged-container", "web", "prod"),
                LintReport("privileged-container", "web", "")>>,
              <<LintReport("latest-tag", "web", Missing),
                LintReport("latest-tag", "web", Missing)>> }
      [] tool = "rbac-analyzer" ->
            { <<RbacFinding("CRITICAL", WildcardTitle, RoleFile, "verbs: *"),
                RbacFinding("WARNING", "RoleBinding dev grants cluster-wide permissions",
                            RoleFile, "binds a ClusterRole")>>,
              <<RbacFinding("HIGH", WildcardTitle, RoleFile, "resources: *"),
                RbacFinding("CRITICAL", WildcardTitle,
                            <<"config", "rbac", "other.yaml">>, "verbs: *")>> }

\* the workspaces in which each tool of the set has left one of its outputs
RECURSIVE WorkspacesOf(_, _)
WorkspacesOf(tools, workspace) ==
    IF tools = {} THEN {workspace}
    ELSE LET tool == CHOOSE t \in tools : TRUE
         IN  UNION { WorkspacesOf(tools \ {tool},
                                  [workspace EXCEPT ![tool] = Output(data)]) :
                       data \in Outputs(tool) }

Workspaces ==
    UNION { WorkspacesOf(tools, [tool \in ToolSet |-> NoOutput]) :
              tools \in {ts \in SUBSET ToolSet : Cardinality(ts) <= MaxOutputs} }

\* an entry a team acknowledged before
Entry(tool, item) ==
    Acknowledge(tool, AckFinding(tool, item), "reviewed, accepted risk", Team)

\* a baseline written by earlier runs
EarlierBaseline ==
    [NewBaseline EXCEPT
        !["gitleaks"] = <<Entry("gitleaks", Leak(GoFile, "AWS access key"))>>,
        !["yamllint"] = <<Entry("yamllint",
                                YamlLine(<<".", "config", "a.yaml">>, "10",
                                         "line-length"))>>,
        !["rbac-analyzer"] =
            <<Entry("rbac-analyzer",
                    RbacFinding("CRITICAL", WildcardTitle, RoleFile, "verbs: *"))>>]

\* baselines whose rbac-analyzer entry shares only the title, or only the
\* file, with a finding
NearBaselines ==
    { [NewBaseline EXCEPT
          !["rbac-analyzer"] =
              <<Entry("rbac-analyzer",
                      RbacFinding("CRITICAL", title, file, "verbs: *"))>>] :
        title \in {WildcardTitle, "Role reader can read secrets"},
        file \in {RoleFile, <<"config", "rbac", "third.yaml">>} }

BaselineFiles ==
    { NoBaselineFile,
      BaselineFile("unparseable", NewBaseline),
      BaselineFile("null", NewBaseline),
      BaselineFile("list", NewBaseline),
      BaselineFile("dict", NewBaseline),
      BaselineFile("dict", EarlierBaseline) }
    \cup { BaselineFile("dict", data) : data \in NearBaselines }

\* SecurityReportGenerator.__init__
InitGenerator(pc_value) ==
    /\ gen_pc = pc_value
    /\ baseline = NewBaseline
    /\ baseline_counts = [tool \in ToolSet |-> 0]
    /\ report_findings = [bucket \in Buckets |-> <<>>]
    /\ tool_stats = [tool \in ToolSet |-> NoStats]
    /\ posture = Missing
    /\ parsers_called = 0

\* FindingAcknowledger.__init__ and the arguments of main
InitAcknowledger(pc_value, filters) ==
    /\ ack_pc = pc_value
    /\ tool_filter \in filters
    /\ baseline_data = NewBaseline
    /\ tools_to_process = <<>>
    /\ new_findings = <<>>
    /\ indices = <<>>
    /\ index_pos = 0
    /\ acknowledged = <<>>
    /\ reason = Missing
    /\ total_acknowledged = 0
    /\ ack_status = -1

\* acknowledge-findings.py run in a workspace
InitAck ==
    /\ AnalyzerIdle
    /\ VerifyIdle
    /\ tool_output \in Workspaces
    /\ baseline_file \in { NoBaselineFile,
                           BaselineFile("unparseable", NewBaseline),
                           BaselineFile("null", NewBaseline),
                           BaselineFile("dict", EarlierBaseline) }
    /\ baseline_writes = 0
    /\ InitAcknowledger("start", {Missing, "trufflehog"})
    /\ InitGenerator("idle")

SpecAck == InitAck /\ [][NextAck]_vars

\* generate-security-report.py run in a workspace
InitReport ==
    /\ AnalyzerIdle
    /\ VerifyIdle
    /\ tool_output \in Workspaces
    /\ baseline_file \in BaselineFiles
    /\ baseline_writes = 0
    /\ InitAcknowledger("idle", {Missing})
    /\ InitGenerator("start")

SpecReport == InitReport /\ [][NextReport]_vars

\* acknowledge-findings.py run in a workspace without a baseline, and
\* generate-security-report.py run there once it has ended
InitBaseline ==
    /\ AnalyzerIdle
    /\ VerifyIdle
    /\ tool_output \in Workspaces
    /\ baseline_file = NoBaselineFile
    /\ baseline_writes = 0
    /\ InitAcknowledger("start", {Missing})
    /\ InitGenerator("start")

NextBaseline ==
    \/ NextAck
    \/ NextReport

SpecBaseline == InitBaseline /\ [][NextBaseline]_vars


\* ------------------------------------------------------------------------
\* Properties of the report generator's RBAC findings (SpecReport)
\* ------------------------------------------------------------------------
RbacRecords == tool_output["rbac-analyzer"].data

\* the rbac-analyzer list of the baseline file, empty when there is no
\* usable baseline
RbacEntries ==
    IF baseline_file.shape = "dict" THEN baseline_file.data["rbac-analyzer"] ELSE <<>>

InRbacBaseline(item) ==
    \E k \in 1..Len(RbacEntries) :
        /\ RbacEntries[k].title = item.title
        /\ RbacEntries[k].file = item.file

\* the bucket of a severity of the analyzer
RbacBucket(severity) ==
    CASE severity = "CRITICAL" -> "critical"
      [] severity = "HIGH" -> "high"
      [] severity = "WARNING" -> "medium"
      [] severity = "INFO" -> "info"

FiledUnder(item, bucket) ==
    \E j \in 1..Len(report_findings[bucket]) :
        LET f == report_findings[bucket][j]
        IN  /\ f.tool = "RBAC Analyzer"
            /\ f.title = item.title
            /\ f.file = item.file
            /\ f.severity = item.severity
            /\ f.description = item.issue

\* the places of the RBAC findings in the buckets
RbacFiled ==
    { <<bucket, j>> \in Buckets \X (1..8) :
        /\ j <= Len(report_findings[bucket])
        /\ report_findings[bucket][j].tool = "RBAC Analyzer" }

\* C21: an RBAC finding is suppressed iff the rbac-analyzer list of the
\* baseline has an entry with its title and its file, whatever the severity,
\* issue and fix; a suppressed finding is in no bucket and is counted once in
\* baseline_counts, any other is in the bucket of its severity, and without
\* a baseline, or with an empty one, every finding is reported.
C21_SuppressedIffTitleAndFile ==
    gen_pc = "done" =>
        /\ \A i \in 1..Len(RbacRecords) :
               IF InRbacBaseline(RbacRecords[i])
               THEN \A bucket \in Buckets : ~FiledUnder(RbacRecords[i], bucket)
               ELSE FiledUnder(RbacRecords[i], RbacBucket(RbacRecords[i].severity))
        /\ baseline_counts["rbac-analyzer"] =
               Cardinality({i \in 1..Len(RbacRecords) : InRbacBaseline(RbacRecords[i])})
        /\ Cardinality(RbacFiled) + baseline_counts["rbac-analyzer"] = Len(RbacRecords)
        /\ RbacEntries = <<>> => Cardinality(RbacFiled) = Len(RbacRecords)

C21_Witness ==
    /\ gen_pc = "done"
    /\ baseline_counts["rbac-analyzer"] = 1
    /\ Cardinality(RbacFiled) = 1
    /\ \E i \in 1..Len(RbacRecords), k \in 1..Len(RbacEntries) :
           /\ RbacEntries[k].title = RbacRecords[i].title
           /\ RbacEntries[k].file = RbacRecords[i].file
           /\ RbacEntries[k].severity # RbacRecords[i].severity
    /\ \E i \in 1..Len(RbacRecords), k \in 1..Len(RbacEntries) :
           /\ RbacEntries[k].title = RbacRecords[i].title
           /\ RbacEntries[k].file # RbacRecords[i].file

\* ------------------------------------------------------------------------
\* Properties of the acknowledger (SpecAck)
\* ------------------------------------------------------------------------
AtHand == Head(tools_to_process)

\* a TruffleHog finding whose verified flag is true
VerifiedSecret(tool, finding) ==
    tool = "trufflehog" /\ finding.verified = "True"

\* C23: no TruffleHog finding whose verified flag is true is returned by
\* interactive_acknowledge or reaches the baseline: whatever is selected, a
\* verified finding is passed over without a reason being asked for, and the
\* other selected findings are acknowledged.
C23_VerifiedNeverAcknowledged ==
    /\ \A k \in 1..Len(acknowledged) : acknowledged[k].verified # "True"
    /\ \A k \in 1..Len(baseline_data["trufflehog"]) :
           baseline_data["trufflehog"][k].verified # "True"
    /\ \A k \in 1..Len(baseline_file.data["trufflehog"]) :
           baseline_file.data["trufflehog"][k].verified # "True"
    /\ ack_pc \in {"reason", "by"} =>
           ~VerifiedSecret(AtHand, new_findings[indices[index_pos + 1]])
    /\ (ack_pc = "next" /\ index_pos = Len(indices)) =>
           Len(acknowledged) =
               Cardinality({p \in 1..Len(indices) :
                               ~VerifiedSecret(AtHand, new_findings[indices[p]])})

C23_Witness ==
    /\ ack_pc = "next"
    /\ AtHand = "trufflehog"
    /\ Len(indices) = 2
    /\ index_pos = 2
    /\ new_findings[indices[1]].verified = "True"
    /\ Len(acknowledged) = 1
    /\ acknowledged[1].detector = new_findings[indices[2]].detector

Prompts == {"select", "reason", "by"}

\* the baseline file is written in the step
Written ==
    baseline_file' # baseline_file \/ baseline_writes' # baseline_writes

\* C24: run_interactive writes the baseline file at most once, after the
\* last tool was processed and only if a finding was acknowledged; an
\* interrupt at a prompt leaves the file as it was, whatever was acknowledged
\* in memory, and ends the process with status 130.
C24_SavedOnceAtTheEnd ==
    /\ [](baseline_writes <= 1)
    /\ [](ack_status = 130 => baseline_writes = 0)
    /\ [][Written =>
             /\ ack_pc = "tool"
             /\ tools_to_process = <<>>
             /\ total_acknowledged > 0]_vars
    /\ [][(ack_pc \in Prompts /\ ack_pc' = "exited") =>
             /\ ack_status' = 130
             /\ ~Written]_vars

C24_Witness ==
    /\ ack_status = 130
    /\ total_acknowledged > 0
    /\ baseline_data # baseline_file.data
    /\ baseline_writes = 0

\* parse_<tool> of the tool's output file
ParsedFindings(tool) == AckParse(tool, tool_output[tool].data)

Unmatched(tool, finding) ==
    \A k \in 1..Len(baseline_data[tool]) :
        ~findings_match(tool, finding, baseline_data[tool][k])

\* xs holds members of ys in the order they have in ys
InOrderOf(xs, ys) ==
    /\ \A j \in 1..Len(xs) : \E i \in 1..Len(ys) : ys[i] = xs[j]
    /\ \A j1, j2 \in 1..Len(xs) :
           j1 < j2 =>
               \E i1, i2 \in 1..Len(ys) :
                   i1 < i2 /\ ys[i1] = xs[j1] /\ ys[i2] = xs[j2]

\* the entry is what acknowledging the finding gives
EntryOf(tool, entry, finding) ==
    entry = Acknowledge(tool, finding, entry.reason, entry.acknowledged_by)

\* C26: filter_new_findings returns the findings that match no baseline
\* entry, in input order, and leaves the baseline as it is; once the entries
\* interactive_acknowledge returned are in the baseline, filter_new_findings
\* on the same output returns none of the acknowledged findings, for each of
\* the nine tools.
C26_FilterRoundTrip ==
    /\ [](ack_pc = "select" =>
             /\ Len(new_findings) =
                    Cardinality({i \in 1..Len(ParsedFindings(AtHand)) :
                                    Unmatched(AtHand, ParsedFindings(AtHand)[i])})
             /\ \A j \in 1..Len(new_findings) : Unmatched(AtHand, new_findings[j])
             /\ InOrderOf(new_findings, ParsedFindings(AtHand)))
    /\ [](ack_pc \notin {"idle", "start"} =>
             \A tool \in ToolSet :
                 \A k \in 1..Len(baseline_data[tool]) :
                     \A i \in 1..Len(ParsedFindings(tool)) :
                         EntryOf(tool, baseline_data[tool][k], ParsedFindings(tool)[i]) =>
                             ParsedFindings(tool)[i] \notin
                                 Range(filter_new_findings(baseline_data[tool], tool,
                                                           ParsedFindings(tool))))
    /\ [][(ack_pc = "tool" /\ tools_to_process # <<>>) =>
             baseline_data' = baseline_data]_vars

C26_Witness ==
    /\ ack_pc = "tool"
    /\ total_acknowledged = 2
    /\ \E tool \in {"gitleaks", "kube-linter", "rbac-analyzer"} :
           /\ Len(baseline_data[tool]) >= 2
           /\ baseline_data[tool][Len(baseline_data[tool])].acknowledged_by = "alice"
           /\ \E i \in 1..Len(ParsedFindings(tool)) :
                  EntryOf(tool, baseline_data[tool][Len(baseline_data[tool])],
                          ParsedFindings(tool)[i])

\* ------------------------------------------------------------------------
\* Properties of the two matchers (SpecBaseline)
\* ------------------------------------------------------------------------
\* C25: for every tool and every record of its output that the acknowledger
\* parses, the generator treats the record as acknowledged iff the
\* acknowledger's matcher matches it with an entry of the saved baseline.
C25_GeneratorMatchesAcknowledger ==
    gen_pc = "done" =>
        \A tool \in ToolSet :
            \A i \in 1..Len(tool_output[tool].data) :
                LET item == tool_output[tool].data[i]
                IN  AckParses(tool, item) =>
                        (is_acknowledged(baseline, tool, GenFinding(tool, item))
                            <=> \E k \in 1..Len(baseline_file.data[tool]) :
                                    findings_match(tool, AckFinding(tool, item),
                                                   baseline_file.data[tool][k]))

====
